---- MODULE Spec2Model ----
(***************************************************************************)
(* UnderWriter: the lexical / style metrics engine of src/src/analyzer.py  *)
(* (analyze_text, analyze_flow_text, compute_flow_composite) together with *)
(* src/src/utils.py (clean_text), and the collaborators around it: the LLM *)
(* helpers of src/src/ai_feedback.py and src/src/ai_grader.py, the profile *)
(* file of src/src/storage.py, the goal and grader-version tables of       *)
(* src/src/db.py and the FlowState section of src/web/app.py.              *)
(*                                                                         *)
(* Conventions.                                                            *)
(*  - A str is a sequence of characters; an ASCII character is the string  *)
(*    of length one; a non-ASCII character, a control character other than *)
(*    \t, \n, \f and \r, and the grave accent, is named by its code point: *)
(*    U+ and its four to six hexadecimal digits in upper case ("U+00E9",   *)
(*    "U+000B", "U+0060", "U+1D7CE").                                      *)
(*  - The module-level _NLP is None (spaCy's model is not part of the      *)
(*    repository), so every function runs its regex fallback branch.       *)
(*  - A float that the code rounds to d decimals is the integer number of  *)
(*    10^-d units: round(x, 2) = 0.43 is 43, round(x, 4) = 0.6 is 6000.    *)
(*  - An unrounded float expression of the metrics engine is the exact     *)
(*    rational <<num, den>> of its mathematical value; every such value is *)
(*    rounded or compared before it is returned.  round() of a single      *)
(*    float division is computed as CPython computes it (the binary64      *)
(*    quotient, then the correctly rounded decimal).  round() of a longer  *)
(*    float expression is                                                  *)
(*    the set of results the accumulated binary64 error can produce: one   *)
(*    value, except when the exact value lies half way between two         *)
(*    decimals, where both neighbours are possible.                        *)
(*  - A float the code stores unrounded (the averages of the profile) is   *)
(*    the binary64 value itself, [limbs, exp]: a significand of 53 bits in *)
(*    limbs of 13 bits, most significant first, times 2^exp; each float    *)
(*    operation on it is correctly rounded, half to even.                  *)
(*  - A Python exception is the field raised = TRUE of a result.           *)
(*  - A database table is the sequence of its rows in insertion order; a   *)
(*    value that may be None is a record with the field none.              *)
(***************************************************************************)
EXTENDS Integers, Sequences, FiniteSets, TLC

VARIABLES
    text,            \* the document handed to analyze_text / analyze_flow_text
    style,           \* what analyze_text returned (NoResult before the call)
    metrics,         \* the FlowMetrics dict (NoResult before analyze_flow_text)
    elapsed_seconds, \* compute_flow_composite's elapsed_seconds argument
    goal_focus,      \* compute_flow_composite's goal_focus argument
    composite,       \* what compute_flow_composite returned (NoResult before)
    assistant,       \* the last call of an LLM helper: its inputs and result,
                     \* and the number of calls made
    flow_goals,      \* the rows of the table flow_goals, in insertion order
    goal_calls,      \* per caller: the upsert_flow_goal call in progress
    goal_call,       \* the upsert_flow_goal call the last step completed
    profile_file,    \* data/user_profile.json: NoFile, or the profile stored
    submitted,       \* the metrics handed to update_profile so far, in order
    grader_versions, \* the rows of teacher_grader_versions, in insertion order
    grader_calls,    \* per caller: the call in progress and its next statement
    grader_done,     \* the set_active_grader_version call the last step completed
    session_state,   \* st.session_state: fs_session_id, fs_started_at, fs_response
    widget,          \* the text area "fs_response_text" as the browser holds it
    rendered,        \* the buttons the last run of the script has shown
    flow_sessions,   \* the number of rows of flow_sessions
    flow_attempts,   \* the rows of flow_attempts, in insertion order
    now,             \* datetime.now(timezone.utc), in ticks
    ui_log           \* what the last run of the script did

engine_vars == <<text, style, metrics, elapsed_seconds, goal_focus, composite>>

goal_vars == <<flow_goals, goal_calls, goal_call>>

profile_vars == <<profile_file, submitted>>

grader_vars == <<grader_versions, grader_calls, grader_done>>

flow_state_vars ==
    <<session_state, widget, rendered, flow_sessions, flow_attempts, now, ui_log>>

app_vars == <<assistant, goal_vars, profile_vars, grader_vars, flow_state_vars>>

vars == <<engine_vars, app_vars>>

NoResult == [called |-> FALSE]

-----------------------------------------------------------------------------
(* Characters                                                              *)

LowerLetters ==
    <<"a","b","c","d","e","f","g","h","i","j","k","l","m",
      "n","o","p","q","r","s","t","u","v","w","x","y","z">>

UpperLetters ==
    <<"A","B","C","D","E","F","G","H","I","J","K","L","M",
      "N","O","P","Q","R","S","T","U","V","W","X","Y","Z">>

AsciiLower == {LowerLetters[i] : i \in DOMAIN LowerLetters}

AsciiUpper == {UpperLetters[i] : i \in DOMAIN UpperLetters}

AsciiLetters == AsciiLower \cup AsciiUpper

Digits == {"0","1","2","3","4","5","6","7","8","9"}

\* Non-ASCII characters of the model's alphabet: a letter (\w, not [A-Za-z])
\* and the em dash of the playfulness list (neither \w nor string.punctuation).
NonAsciiLetters == {"U+00E9"}

EmDash == "U+2014"

\* \s of the re module on a str pattern, and what str.strip() strips: the
\* characters for which str.isspace() is true.
Whitespace ==
    {" ", "\t", "\n", "\r", "\f",
     "U+000B", "U+001C", "U+001D", "U+001E", "U+001F", "U+0085", "U+00A0",
     "U+1680", "U+2000", "U+2001", "U+2002", "U+2003", "U+2004", "U+2005",
     "U+2006", "U+2007", "U+2008", "U+2009", "U+200A", "U+2028", "U+2029",
     "U+202F", "U+205F", "U+3000"}

\* string.punctuation
string_punctuation ==
    {"!", "\"", "#", "$", "%", "&", "'", "(", ")", "*", "+", ",", "-", ".",
     "/", ":", ";", "<", "=", ">", "?", "@", "[", "\\", "]", "^", "_", "U+0060",
     "{", "|", "}", "~"}

\* \w of the re module on str patterns (Unicode word characters).
IsWordChar(c) == c \in AsciiLetters \cup Digits \cup NonAsciiLetters \cup {"_"}

\* [A-Za-z'] of _WORD_RE
IsTokenChar(c) == c \in AsciiLetters \cup {"'"}

\* [.!?] of the sentence splitter
IsTerminal(c) == c \in {".", "!", "?"}

\* str.lower() on one character of the alphabet
lower_char(c) ==
    IF c \in AsciiUpper
    THEN LowerLetters[CHOOSE i \in DOMAIN UpperLetters : UpperLetters[i] = c]
    ELSE c

\* str.lower()
lower(s) == [i \in 1..Len(s) |-> lower_char(s[i])]

-----------------------------------------------------------------------------
(* Code points                                                             *)

\* The characters U+0020 to U+007E in the order of their code points.
AsciiPrintable ==
    <<" ", "!", "\"", "#", "$", "%", "&", "'", "(", ")", "*", "+", ",", "-",
      ".", "/", "0", "1", "2", "3", "4", "5", "6", "7", "8", "9", ":", ";",
      "<", "=", ">", "?", "@", "A", "B", "C", "D", "E", "F", "G", "H", "I",
      "J", "K", "L", "M", "N", "O", "P", "Q", "R", "S", "T", "U", "V", "W",
      "X", "Y", "Z", "[", "\\", "]", "^", "_", "U+0060", "a", "b", "c", "d",
      "e", "f", "g", "h", "i", "j", "k", "l", "m", "n", "o", "p", "q", "r",
      "s", "t", "u", "v", "w", "x", "y", "z", "{", "|", "}", "~">>

UpperHex == <<"0","1","2","3","4","5","6","7","8","9","A","B","C","D","E","F">>

LowerHex == <<"0","1","2","3","4","5","6","7","8","9","a","b","c","d","e","f">>

\* The number the hexadecimal digits of a name write, from its third
\* character to the one at last.
RECURSIVE hex_number(_, _)
hex_number(name, last) ==
    IF last < 3 THEN 0
    ELSE 16 * hex_number(name, last - 1)
         + (CHOOSE i \in DOMAIN UpperHex : UpperHex[i] = SubSeq(name, last, last)) - 1

\* ord(c)
ord(c) ==
    IF Len(c) > 1 THEN hex_number(c, Len(c))
    ELSE CASE c = "\t" -> 9
           [] c = "\n" -> 10
           [] c = "\f" -> 12
           [] c = "\r" -> 13
           [] OTHER -> 31 + (CHOOSE i \in DOMAIN AsciiPrintable : AsciiPrintable[i] = c)

\* The hexadecimal digits of n, width of them, in lower case.
RECURSIVE hex_digits(_, _)
hex_digits(n, width) ==
    IF width = 0 THEN <<>>
    ELSE hex_digits(n \div 16, width - 1) \o <<LowerHex[(n % 16) + 1]>>

\* The ranges of the code points for which str.isprintable() is false
\* (Unicode 14.0): the categories Cc, Cf, Cs, Co, Cn, Zl, Zp, and Zs but
\* for the space.
NotPrintable ==
    {<<0,31>>, <<127,160>>, <<173,173>>, <<888,889>>, <<896,899>>,
     <<907,907>>, <<909,909>>, <<930,930>>, <<1328,1328>>, <<1367,1368>>,
     <<1419,1420>>, <<1424,1424>>, <<1480,1487>>, <<1515,1518>>,
     <<1525,1541>>, <<1564,1564>>, <<1757,1757>>, <<1806,1807>>,
     <<1867,1868>>, <<1970,1983>>, <<2043,2044>>, <<2094,2095>>,
     <<2111,2111>>, <<2140,2141>>, <<2143,2143>>, <<2155,2159>>,
     <<2191,2199>>, <<2274,2274>>, <<2436,2436>>, <<2445,2446>>,
     <<2449,2450>>, <<2473,2473>>, <<2481,2481>>, <<2483,2485>>,
     <<2490,2491>>, <<2501,2502>>, <<2505,2506>>, <<2511,2518>>,
     <<2520,2523>>, <<2526,2526>>, <<2532,2533>>, <<2559,2560>>,
     <<2564,2564>>, <<2571,2574>>, <<2577,2578>>, <<2601,2601>>,
     <<2609,2609>>, <<2612,2612>>, <<2615,2615>>, <<2618,2619>>,
     <<2621,2621>>, <<2627,2630>>, <<2633,2634>>, <<2638,2640>>,
     <<2642,2648>>, <<2653,2653>>, <<2655,2661>>, <<2679,2688>>,
     <<2692,2692>>, <<2702,2702>>, <<2706,2706>>, <<2729,2729>>,
     <<2737,2737>>, <<2740,2740>>, <<2746,2747>>, <<2758,2758>>,
     <<2762,2762>>, <<2766,2767>>, <<2769,2783>>, <<2788,2789>>,
     <<2802,2808>>, <<2816,2816>>, <<2820,2820>>, <<2829,2830>>,
     <<2833,2834>>, <<2857,2857>>, <<2865,2865>>, <<2868,2868>>,
     <<2874,2875>>, <<2885,2886>>, <<2889,2890>>, <<2894,2900>>,
     <<2904,2907>>, <<2910,2910>>, <<2916,2917>>, <<2936,2945>>,
     <<2948,2948>>, <<2955,2957>>, <<2961,2961>>, <<2966,2968>>,
     <<2971,2971>>, <<2973,2973>>, <<2976,2978>>, <<2981,2983>>,
     <<2987,2989>>, <<3002,3005>>, <<3011,3013>>, <<3017,3017>>,
     <<3022,3023>>, <<3025,3030>>, <<3032,3045>>, <<3067,3071>>,
     <<3085,3085>>, <<3089,3089>>, <<3113,3113>>, <<3130,3131>>,
     <<3141,3141>>, <<3145,3145>>, <<3150,3156>>, <<3159,3159>>,
     <<3163,3164>>, <<3166,3167>>, <<3172,3173>>, <<3184,3190>>,
     <<3213,3213>>, <<3217,3217>>, <<3241,3241>>, <<3252,3252>>,
     <<3258,3259>>, <<3269,3269>>, <<3273,3273>>, <<3278,3284>>,
     <<3287,3292>>, <<3295,3295>>, <<3300,3301>>, <<3312,3312>>,
     <<3315,3327>>, <<3341,3341>>, <<3345,3345>>, <<3397,3397>>,
     <<3401,3401>>, <<3408,3411>>, <<3428,3429>>, <<3456,3456>>,
     <<3460,3460>>, <<3479,3481>>, <<3506,3506>>, <<3516,3516>>,
     <<3518,3519>>, <<3527,3529>>, <<3531,3534>>, <<3541,3541>>,
     <<3543,3543>>, <<3552,3557>>, <<3568,3569>>, <<3573,3584>>,
     <<3643,3646>>, <<3676,3712>>, <<3715,3715>>, <<3717,3717>>,
     <<3723,3723>>, <<3748,3748>>, <<3750,3750>>, <<3774,3775>>,
     <<3781,3781>>, <<3783,3783>>, <<3790,3791>>, <<3802,3803>>,
     <<3808,3839>>, <<3912,3912>>, <<3949,3952>>, <<3992,3992>>,
     <<4029,4029>>, <<4045,4045>>, <<4059,4095>>, <<4294,4294>>,
     <<4296,4300>>, <<4302,4303>>, <<4681,4681>>, <<4686,4687>>,
     <<4695,4695>>, <<4697,4697>>, <<4702,4703>>, <<4745,4745>>,
     <<4750,4751>>, <<4785,4785>>, <<4790,4791>>, <<4799,4799>>,
     <<4801,4801>>, <<4806,4807>>, <<4823,4823>>, <<4881,4881>>,
     <<4886,4887>>, <<4955,4956>>, <<4989,4991>>, <<5018,5023>>,
     <<5110,5111>>, <<5118,5119>>, <<5760,5760>>, <<5789,5791>>,
     <<5881,5887>>, <<5910,5918>>, <<5943,5951>>, <<5972,5983>>,
     <<5997,5997>>, <<6001,6001>>, <<6004,6015>>, <<6110,6111>>,
     <<6122,6127>>, <<6138,6143>>, <<6158,6158>>, <<6170,6175>>,
     <<6265,6271>>, <<6315,6319>>, <<6390,6399>>, <<6431,6431>>,
     <<6444,6447>>, <<6460,6463>>, <<6465,6467>>, <<6510,6511>>,
     <<6517,6527>>, <<6572,6575>>, <<6602,6607>>, <<6619,6621>>,
     <<6684,6685>>, <<6751,6751>>, <<6781,6782>>, <<6794,6799>>,
     <<6810,6815>>, <<6830,6831>>, <<6863,6911>>, <<6989,6991>>,
     <<7039,7039>>, <<7156,7163>>, <<7224,7226>>, <<7242,7244>>,
     <<7305,7311>>, <<7355,7356>>, <<7368,7375>>, <<7419,7423>>,
     <<7958,7959>>, <<7966,7967>>, <<8006,8007>>, <<8014,8015>>,
     <<8024,8024>>, <<8026,8026>>, <<8028,8028>>, <<8030,8030>>,
     <<8062,8063>>, <<8117,8117>>, <<8133,8133>>, <<8148,8149>>,
     <<8156,8156>>, <<8176,8177>>, <<8181,8181>>, <<8191,8207>>,
     <<8232,8239>>, <<8287,8303>>, <<8306,8307>>, <<8335,8335>>,
     <<8349,8351>>, <<8385,8399>>, <<8433,8447>>, <<8588,8591>>,
     <<9255,9279>>, <<9291,9311>>, <<11124,11125>>, <<11158,11158>>,
     <<11508,11512>>, <<11558,11558>>, <<11560,11564>>, <<11566,11567>>,
     <<11624,11630>>, <<11633,11646>>, <<11671,11679>>, <<11687,11687>>,
     <<11695,11695>>, <<11703,11703>>, <<11711,11711>>, <<11719,11719>>,
     <<11727,11727>>, <<11735,11735>>, <<11743,11743>>, <<11870,11903>>,
     <<11930,11930>>, <<12020,12031>>, <<12246,12271>>, <<12284,12288>>,
     <<12352,12352>>, <<12439,12440>>, <<12544,12548>>, <<12592,12592>>,
     <<12687,12687>>, <<12772,12783>>, <<12831,12831>>, <<42125,42127>>,
     <<42183,42191>>, <<42540,42559>>, <<42744,42751>>, <<42955,42959>>,
     <<42962,42962>>, <<42964,42964>>, <<42970,42993>>, <<43053,43055>>,
     <<43066,43071>>, <<43128,43135>>, <<43206,43213>>, <<43226,43231>>,
     <<43348,43358>>, <<43389,43391>>, <<43470,43470>>, <<43482,43485>>,
     <<43519,43519>>, <<43575,43583>>, <<43598,43599>>, <<43610,43611>>,
     <<43715,43738>>, <<43767,43776>>, <<43783,43784>>, <<43791,43792>>,
     <<43799,43807>>, <<43815,43815>>, <<43823,43823>>, <<43884,43887>>,
     <<44014,44015>>, <<44026,44031>>, <<55204,55215>>, <<55239,55242>>,
     <<55292,63743>>, <<64110,64111>>, <<64218,64255>>, <<64263,64274>>,
     <<64280,64284>>, <<64311,64311>>, <<64317,64317>>, <<64319,64319>>,
     <<64322,64322>>, <<64325,64325>>, <<64451,64466>>, <<64912,64913>>,
     <<64968,64974>>, <<64976,65007>>, <<65050,65055>>, <<65107,65107>>,
     <<65127,65127>>, <<65132,65135>>, <<65141,65141>>, <<65277,65280>>,
     <<65471,65473>>, <<65480,65481>>, <<65488,65489>>, <<65496,65497>>,
     <<65501,65503>>, <<65511,65511>>, <<65519,65531>>, <<65534,65535>>,
     <<65548,65548>>, <<65575,65575>>, <<65595,65595>>, <<65598,65598>>,
     <<65614,65615>>, <<65630,65663>>, <<65787,65791>>, <<65795,65798>>,
     <<65844,65846>>, <<65935,65935>>, <<65949,65951>>, <<65953,65999>>,
     <<66046,66175>>, <<66205,66207>>, <<66257,66271>>, <<66300,66303>>,
     <<66340,66348>>, <<66379,66383>>, <<66427,66431>>, <<66462,66462>>,
     <<66500,66503>>, <<66518,66559>>, <<66718,66719>>, <<66730,66735>>,
     <<66772,66775>>, <<66812,66815>>, <<66856,66863>>, <<66916,66926>>,
     <<66939,66939>>, <<66955,66955>>, <<66963,66963>>, <<66966,66966>>,
     <<66978,66978>>, <<66994,66994>>, <<67002,67002>>, <<67005,67071>>,
     <<67383,67391>>, <<67414,67423>>, <<67432,67455>>, <<67462,67462>>,
     <<67505,67505>>, <<67515,67583>>, <<67590,67591>>, <<67593,67593>>,
     <<67638,67638>>, <<67641,67643>>, <<67645,67646>>, <<67670,67670>>,
     <<67743,67750>>, <<67760,67807>>, <<67827,67827>>, <<67830,67834>>,
     <<67868,67870>>, <<67898,67902>>, <<67904,67967>>, <<68024,68027>>,
     <<68048,68049>>, <<68100,68100>>, <<68103,68107>>, <<68116,68116>>,
     <<68120,68120>>, <<68150,68151>>, <<68155,68158>>, <<68169,68175>>,
     <<68185,68191>>, <<68256,68287>>, <<68327,68330>>, <<68343,68351>>,
     <<68406,68408>>, <<68438,68439>>, <<68467,68471>>, <<68498,68504>>,
     <<68509,68520>>, <<68528,68607>>, <<68681,68735>>, <<68787,68799>>,
     <<68851,68857>>, <<68904,68911>>, <<68922,69215>>, <<69247,69247>>,
     <<69290,69290>>, <<69294,69295>>, <<69298,69375>>, <<69416,69423>>,
     <<69466,69487>>, <<69514,69551>>, <<69580,69599>>, <<69623,69631>>,
     <<69710,69713>>, <<69750,69758>>, <<69821,69821>>, <<69827,69839>>,
     <<69865,69871>>, <<69882,69887>>, <<69941,69941>>, <<69960,69967>>,
     <<70007,70015>>, <<70112,70112>>, <<70133,70143>>, <<70162,70162>>,
     <<70207,70271>>, <<70279,70279>>, <<70281,70281>>, <<70286,70286>>,
     <<70302,70302>>, <<70314,70319>>, <<70379,70383>>, <<70394,70399>>,
     <<70404,70404>>, <<70413,70414>>, <<70417,70418>>, <<70441,70441>>,
     <<70449,70449>>, <<70452,70452>>, <<70458,70458>>, <<70469,70470>>,
     <<70473,70474>>, <<70478,70479>>, <<70481,70486>>, <<70488,70492>>,
     <<70500,70501>>, <<70509,70511>>, <<70517,70655>>, <<70748,70748>>,
     <<70754,70783>>, <<70856,70863>>, <<70874,71039>>, <<71094,71095>>,
     <<71134,71167>>, <<71237,71247>>, <<71258,71263>>, <<71277,71295>>,
     <<71354,71359>>, <<71370,71423>>, <<71451,71452>>, <<71468,71471>>,
     <<71495,71679>>, <<71740,71839>>, <<71923,71934>>, <<71943,71944>>,
     <<71946,71947>>, <<71956,71956>>, <<71959,71959>>, <<71990,71990>>,
     <<71993,71994>>, <<72007,72015>>, <<72026,72095>>, <<72104,72105>>,
     <<72152,72153>>, <<72165,72191>>, <<72264,72271>>, <<72355,72367>>,
     <<72441,72703>>, <<72713,72713>>, <<72759,72759>>, <<72774,72783>>,
     <<72813,72815>>, <<72848,72849>>, <<72872,72872>>, <<72887,72959>>,
     <<72967,72967>>, <<72970,72970>>, <<73015,73017>>, <<73019,73019>>,
     <<73022,73022>>, <<73032,73039>>, <<73050,73055>>, <<73062,73062>>,
     <<73065,73065>>, <<73103,73103>>, <<73106,73106>>, <<73113,73119>>,
     <<73130,73439>>, <<73465,73647>>, <<73649,73663>>, <<73714,73726>>,
     <<74650,74751>>, <<74863,74863>>, <<74869,74879>>, <<75076,77711>>,
     <<77811,77823>>, <<78895,82943>>, <<83527,92159>>, <<92729,92735>>,
     <<92767,92767>>, <<92778,92781>>, <<92863,92863>>, <<92874,92879>>,
     <<92910,92911>>, <<92918,92927>>, <<92998,93007>>, <<93018,93018>>,
     <<93026,93026>>, <<93048,93052>>, <<93072,93759>>, <<93851,93951>>,
     <<94027,94030>>, <<94088,94094>>, <<94112,94175>>, <<94181,94191>>,
     <<94194,94207>>, <<100344,100351>>, <<101590,101631>>,
     <<101641,110575>>, <<110580,110580>>, <<110588,110588>>,
     <<110591,110591>>, <<110883,110927>>, <<110931,110947>>,
     <<110952,110959>>, <<111356,113663>>, <<113771,113775>>,
     <<113789,113791>>, <<113801,113807>>, <<113818,113819>>,
     <<113824,118527>>, <<118574,118575>>, <<118599,118607>>,
     <<118724,118783>>, <<119030,119039>>, <<119079,119080>>,
     <<119155,119162>>, <<119275,119295>>, <<119366,119519>>,
     <<119540,119551>>, <<119639,119647>>, <<119673,119807>>,
     <<119893,119893>>, <<119965,119965>>, <<119968,119969>>,
     <<119971,119972>>, <<119975,119976>>, <<119981,119981>>,
     <<119994,119994>>, <<119996,119996>>, <<120004,120004>>,
     <<120070,120070>>, <<120075,120076>>, <<120085,120085>>,
     <<120093,120093>>, <<120122,120122>>, <<120127,120127>>,
     <<120133,120133>>, <<120135,120137>>, <<120145,120145>>,
     <<120486,120487>>, <<120780,120781>>, <<121484,121498>>,
     <<121504,121504>>, <<121520,122623>>, <<122655,122879>>,
     <<122887,122887>>, <<122905,122906>>, <<122914,122914>>,
     <<122917,122917>>, <<122923,123135>>, <<123181,123183>>,
     <<123198,123199>>, <<123210,123213>>, <<123216,123535>>,
     <<123567,123583>>, <<123642,123646>>, <<123648,124895>>,
     <<124903,124903>>, <<124908,124908>>, <<124911,124911>>,
     <<124927,124927>>, <<125125,125126>>, <<125143,125183>>,
     <<125260,125263>>, <<125274,125277>>, <<125280,126064>>,
     <<126133,126208>>, <<126270,126463>>, <<126468,126468>>,
     <<126496,126496>>, <<126499,126499>>, <<126501,126502>>,
     <<126504,126504>>, <<126515,126515>>, <<126520,126520>>,
     <<126522,126522>>, <<126524,126529>>, <<126531,126534>>,
     <<126536,126536>>, <<126538,126538>>, <<126540,126540>>,
     <<126544,126544>>, <<126547,126547>>, <<126549,126550>>,
     <<126552,126552>>, <<126554,126554>>, <<126556,126556>>,
     <<126558,126558>>, <<126560,126560>>, <<126563,126563>>,
     <<126565,126566>>, <<126571,126571>>, <<126579,126579>>,
     <<126584,126584>>, <<126589,126589>>, <<126591,126591>>,
     <<126602,126602>>, <<126620,126624>>, <<126628,126628>>,
     <<126634,126634>>, <<126652,126703>>, <<126706,126975>>,
     <<127020,127023>>, <<127124,127135>>, <<127151,127152>>,
     <<127168,127168>>, <<127184,127184>>, <<127222,127231>>,
     <<127406,127461>>, <<127491,127503>>, <<127548,127551>>,
     <<127561,127567>>, <<127570,127583>>, <<127590,127743>>,
     <<128728,128732>>, <<128749,128751>>, <<128765,128767>>,
     <<128884,128895>>, <<128985,128991>>, <<129004,129007>>,
     <<129009,129023>>, <<129036,129039>>, <<129096,129103>>,
     <<129114,129119>>, <<129160,129167>>, <<129198,129199>>,
     <<129202,129279>>, <<129620,129631>>, <<129646,129647>>,
     <<129653,129655>>, <<129661,129663>>, <<129671,129679>>,
     <<129709,129711>>, <<129723,129727>>, <<129734,129743>>,
     <<129754,129759>>, <<129768,129775>>, <<129783,129791>>,
     <<129939,129939>>, <<129995,130031>>, <<130042,131071>>,
     <<173792,173823>>, <<177977,177983>>, <<178206,178207>>,
     <<183970,183983>>, <<191457,194559>>, <<195102,196607>>,
     <<201547,917759>>, <<918000,1114111>>}

\* str.isprintable() of the character of code point cp
isprintable(cp) == ~(\E r \in NotPrintable : r[1] <= cp /\ cp <= r[2])

\* The code points of the decimal digits 0 (Unicode 14.0); the digits 1 to
\* 9 of each follow it.
DecimalZeros ==
    {48, 1632, 1776, 1984, 2406, 2534, 2662, 2790, 2918, 3046, 3174, 3302,
     3430, 3558, 3664, 3792, 3872, 4160, 4240, 6112, 6160, 6470, 6608, 6784,
     6800, 6992, 7088, 7232, 7248, 42528, 43216, 43264, 43472, 43504, 43600,
     44016, 65296, 66720, 68912, 69734, 69872, 69942, 70096, 70384, 70736,
     70864, 71248, 71360, 71472, 71904, 72016, 72784, 73040, 73120, 92768,
     92864, 93008, 120782, 120792, 120802, 120812, 120822, 123200, 123632,
     125264, 130032}

\* unicodedata.decimal(c, -1) of the character of code point cp
decimal(cp) ==
    IF \E z \in DecimalZeros : z <= cp /\ cp <= z + 9
    THEN cp - (CHOOSE z \in DecimalZeros : z <= cp /\ cp <= z + 9)
    ELSE 0 - 1

-----------------------------------------------------------------------------
(* Sequences: scans written by halving the index range, so that the depth  *)
(* of evaluation is logarithmic in the length of the text.                 *)

\* F(lo) \o F(lo+1) \o ... \o F(hi)
RECURSIVE FlatMap(_, _, _)
FlatMap(F(_), lo, hi) ==
    IF lo > hi THEN <<>>
    ELSE IF lo = hi THEN F(lo)
    ELSE LET mid == (lo + hi) \div 2
         IN  FlatMap(F, lo, mid) \o FlatMap(F, mid + 1, hi)

\* F(lo) + F(lo+1) + ... + F(hi)
RECURSIVE SumOver(_, _, _)
SumOver(F(_), lo, hi) ==
    IF lo > hi THEN 0
    ELSE IF lo = hi THEN F(lo)
    ELSE LET mid == (lo + hi) \div 2
         IN  SumOver(F, lo, mid) + SumOver(F, mid + 1, hi)

\* The least index of lo..hi that satisfies P, 0 if there is none.
RECURSIVE FirstIn(_, _, _)
FirstIn(P(_), lo, hi) ==
    IF lo > hi THEN 0
    ELSE IF lo = hi THEN (IF P(lo) THEN lo ELSE 0)
    ELSE LET mid  == (lo + hi) \div 2
             left == FirstIn(P, lo, mid)
         IN  IF left # 0 THEN left ELSE FirstIn(P, mid + 1, hi)

\* The greatest index of lo..hi that satisfies P, 0 if there is none.
RECURSIVE LastIn(_, _, _)
LastIn(P(_), lo, hi) ==
    IF lo > hi THEN 0
    ELSE IF lo = hi THEN (IF P(lo) THEN lo ELSE 0)
    ELSE LET mid   == (lo + hi) \div 2
             right == LastIn(P, mid + 1, hi)
         IN  IF right # 0 THEN right ELSE LastIn(P, lo, mid)

\* sum(q)
SumSeq(q) == SumOver(LAMBDA i : q[i], 1, Len(q))

MaxOf(S) == CHOOSE x \in S : \A y \in S : y <= x

MinOf(S) == CHOOSE x \in S : \A y \in S : x <= y

-----------------------------------------------------------------------------
(* Strings                                                                 *)

\* str.strip()
strip(s) ==
    LET lo == FirstIn(LAMBDA i : s[i] \notin Whitespace, 1, Len(s))
        hi == LastIn(LAMBDA i : s[i] \notin Whitespace, 1, Len(s))
    IN  IF lo = 0 THEN <<>> ELSE SubSeq(s, lo, hi)

\* re.sub(r'\s+', ' ', s): every maximal run of whitespace becomes one space.
collapse_whitespace(s) ==
    FlatMap(LAMBDA i : IF s[i] \in Whitespace
                       THEN IF i > 1 /\ s[i-1] \in Whitespace THEN <<>> ELSE <<" ">>
                       ELSE <<s[i]>>,
            1, Len(s))

clean_text(s) == strip(collapse_whitespace(s))

\* The maximal runs of characters of a class, left to right: what
\* re.findall returns for a pattern [class]+.
Runs(s, InClass(_)) ==
    LET Starts(i) == InClass(s[i]) /\ (i = 1 \/ ~InClass(s[i-1]))
        EndOf(i)  == LET stop == FirstIn(LAMBDA j : ~InClass(s[j]), i, Len(s))
                     IN  IF stop = 0 THEN Len(s) ELSE stop - 1
    IN  FlatMap(LAMBDA i : IF Starts(i) THEN <<SubSeq(s, i, EndOf(i))>> ELSE <<>>,
                1, Len(s))

\* _WORD_RE.findall(text)
fallback_tokens(s) == Runs(s, IsTokenChar)

\* _NLP is None: _tokenize_alpha is _fallback_tokens
tokenize_alpha(s) == fallback_tokens(s)

\* re.split(r"[.!?]+", s): the pieces between the maximal runs of terminals.
\* A piece is empty only before a run that opens the text and after a run
\* that closes it; the empty text is one empty piece.
re_split_terminals(s) ==
    IF s = <<>> THEN << <<>> >>
    ELSE (IF IsTerminal(s[1]) THEN << <<>> >> ELSE <<>>)
         \o Runs(s, LAMBDA c : ~IsTerminal(c))
         \o (IF IsTerminal(s[Len(s)]) THEN << <<>> >> ELSE <<>>)

\* The sentence list without its filter: [s.strip() for s in sentences]
split_sentences_keep_empty(s) ==
    LET parts == re_split_terminals(s)
    IN  [i \in 1..Len(parts) |-> strip(parts[i])]

\* [s.strip() for s in sentences if s.strip()]
split_sentences(s) ==
    LET parts == re_split_terminals(s)
        kept  == SelectSeq(parts, LAMBDA p : strip(p) # <<>>)
    IN  [i \in 1..Len(kept) |-> strip(kept[i])]

-----------------------------------------------------------------------------
(* Numbers                                                                 *)

RECURSIVE Pow(_, _)
Pow(b, n) == IF n = 0 THEN 1 ELSE b * Pow(b, n - 1)

RECURSIVE PowMod(_, _, _)
PowMod(b, n, m) == IF n = 0 THEN 1 % m ELSE (b * PowMod(b, n - 1, m)) % m

RECURSIVE Gcd(_, _)
Gcd(a, b) == IF b = 0 THEN a ELSE Gcd(b, a % b)


\* The least k with p * 2^k >= q (0 < p < q).
RECURSIVE ShiftUp(_, _, _)
ShiftUp(p, q, k) == IF p * Pow(2, k) >= q THEN k ELSE ShiftUp(p, q, k + 1)

\* The greatest e with q * 2^e <= p (p >= q > 0).
RECURSIVE ShiftDown(_, _, _)
ShiftDown(p, q, e) == IF q * Pow(2, e + 1) > p THEN e ELSE ShiftDown(p, q, e + 1)

\* p / q of two ints (p > 0, q > 0) is the binary64 nearest to the quotient.
\* With 2^e <= p/q < 2^(e+1) the significand is p * 2^(52-e) / q rounded to
\* an integer, so the remainder of that division tells on which side of the
\* exact quotient the float lies: -1 below, 0 equal, 1 above.  (A remainder
\* of exactly q/2 would need a 54-bit numerator and does not arise.)
float_div_error(p, q) ==
    LET e   == IF p >= q THEN ShiftDown(p, q, 0) ELSE 0 - ShiftUp(p, q, 1)
        rem == ((p % q) * PowMod(2, 52 - e, q)) % q
    IN  IF rem = 0 THEN 0 ELSE IF 2 * rem > q THEN 1 ELSE -1

\* round(p / q, d) in units of 10^-d, for ints p >= 0, q > 0: the decimal
\* nearest to the binary64 quotient, ties (the float itself half way) to even.
py_round_div(p, q, d) ==
    LET n == p * Pow(10, d)
        k == n \div q
        r == n % q
    IN  IF 2 * r < q THEN k
        ELSE IF 2 * r > q THEN k + 1
        ELSE LET err == float_div_error(p, q)
             IN  IF err > 0 THEN k + 1
                 ELSE IF err < 0 THEN k
                 ELSE IF k % 2 = 0 THEN k ELSE k + 1

\* 1.0 - p / q for ints 0 < p < q: on which side of the exact 1 - p/q the
\* binary64 result lies (-1 below, 0 equal, 1 above).  With y the float p / q:
\* from 1/2 up, 1.0 - y is exact, so the error is that of y reversed; below
\* 1/2 the difference is rounded to a multiple of 2^-53, and in these units
\* the exact difference has fractional part 1 - F and y adds an error E, so
\* the float is the upper neighbour exactly when F + E is under one half
\* (a half: the neighbour with the even significand).
float_one_minus_div_error(p, q) ==
    LET err == float_div_error(p, q)
    IN  IF err = 0 THEN 0
        ELSE IF 2 * p >= q THEN 0 - err
        ELSE LET k    == ShiftUp(p, q, 1)
                 R    == ((p % q) * PowMod(2, 52 + k, q)) % q
                 En   == IF 2 * R > q THEN q - R ELSE 0 - R
                 r2   == ((p % (2 * q)) * PowMod(2, 53, 2 * q)) % (2 * q)
                 Fn   == r2 % q
                 Iodd == r2 \div q
                 N    == Pow(2, k - 1) * Fn + En
                 D    == q * Pow(2, k - 1)
             IN  IF 2 * N < D THEN 1
                 ELSE IF 2 * N > D THEN -1
                 ELSE IF Iodd = 1 THEN -1 ELSE 1

\* round(1.0 - p / q, d) in units of 10^-d, for ints 0 < p <= q: the decimal
\* nearest to the binary64 difference, ties (the float itself half way) to even.
py_round_one_minus_div(p, q, d) ==
    LET n == (q - p) * Pow(10, d)
        k == n \div q
        r == n % q
    IN  IF 2 * r < q THEN k
        ELSE IF 2 * r > q THEN k + 1
        ELSE LET err == float_one_minus_div_error(p, q)
             IN  IF err > 0 THEN k + 1
                 ELSE IF err < 0 THEN k
                 ELSE IF k % 2 = 0 THEN k ELSE k + 1

\* The value of an expression that completed, and of one that raised.
Ok(v) == [raised |-> FALSE, value |-> v]

Raise(exc) == [raised |-> TRUE, value |-> exc]

\* a / b on numbers: ZeroDivisionError when b is 0, else the quotient <<a, b>>.
true_div(a, b) == IF b = 0 THEN Raise("ZeroDivisionError") ELSE Ok(<<a, b>>)

\* Exact rationals <<num, den>>, den > 0, in lowest terms.
Rat(n, d) ==
    LET g == Gcd(IF n < 0 THEN 0 - n ELSE n, d)
    IN  IF n = 0 THEN <<0, 1>> ELSE <<n \div g, d \div g>>

Lcm(a, b) == (a \div Gcd(a, b)) * b

RatAdd(x, y) ==
    LET l == Lcm(x[2], y[2])
    IN  Rat(x[1] * (l \div x[2]) + y[1] * (l \div y[2]), l)

RatSub(x, y) == RatAdd(x, <<0 - y[1], y[2]>>)

RatMul(x, y) ==
    LET a == Rat(x[1], y[2])
        b == Rat(y[1], x[2])
    IN  Rat(a[1] * b[1], a[2] * b[2])

RatLe(x, y) == x[1] * y[2] <= y[1] * x[2]

RatMax(x, y) == IF RatLe(x, y) THEN y ELSE x

RatMin(x, y) == IF RatLe(x, y) THEN x ELSE y

\* round(x, d) in units of 10^-d for a float x computed by several binary64
\* operations whose exact value is the rational x >= 0: the nearest decimal,
\* and either neighbour when the exact value is half way between two.
round_outcomes(x, d) ==
    LET n == (x[1] % x[2]) * Pow(10, d)
        k == (x[1] \div x[2]) * Pow(10, d) + n \div x[2]
        r == n % x[2]
    IN  IF 2 * r < x[2] THEN {k}
        ELSE IF 2 * r > x[2] THEN {k + 1}
        ELSE {k, k + 1}

-----------------------------------------------------------------------------
(* analyze_text (fallback branch)                                          *)

_BASIC_STOPWORDS ==
    { <<"t","h","e">>, <<"b","e">>, <<"t","o">>, <<"o","f">>, <<"a","n","d">>,
      <<"a">>, <<"i","n">>, <<"t","h","a","t">>, <<"h","a","v","e">>, <<"i">>,
      <<"i","t">>, <<"f","o","r">>, <<"n","o","t">>, <<"o","n">>,
      <<"w","i","t","h">>, <<"h","e">>, <<"a","s">>, <<"y","o","u">>,
      <<"d","o">>, <<"a","t">>, <<"t","h","i","s">>, <<"b","u","t">>,
      <<"h","i","s">>, <<"b","y">>, <<"f","r","o","m">>, <<"t","h","e","y">>,
      <<"w","e">>, <<"s","a","y">>, <<"h","e","r">>, <<"s","h","e">>,
      <<"o","r">>, <<"a","n">>, <<"w","i","l","l">>, <<"m","y">>,
      <<"o","n","e">>, <<"a","l","l">>, <<"w","o","u","l","d">>,
      <<"t","h","e","r","e">>, <<"t","h","e","i","r">>, <<"w","h","a","t">>,
      <<"s","o">>, <<"u","p">>, <<"o","u","t">>, <<"i","f">>,
      <<"a","b","o","u","t">>, <<"w","h","o">>, <<"g","e","t">>,
      <<"w","h","i","c","h">>, <<"g","o">>, <<"m","e">>
    }

\* sentence_lengths = [len(_fallback_tokens(s)) for s in sentences]
sentence_lengths(sentences) ==
    [i \in 1..Len(sentences) |-> Len(fallback_tokens(sentences[i]))]

\* avg_len without its guard: the division is made for an empty list too.
avg_len_unguarded(sentences, lengths) == true_div(SumSeq(lengths), Len(lengths))

\* avg_len = sum(sentence_lengths) / len(sentence_lengths) if sentences else 0.0
avg_len(sentences, lengths) ==
    IF sentences # <<>> THEN true_div(SumSeq(lengths), Len(lengths))
    ELSE Ok(<<0, 1>>)

\* var_len without its guard: max() and min() are taken of an empty list too.
var_len_unguarded(sentences, lengths) ==
    IF lengths = <<>> THEN Raise("ValueError")
    ELSE LET S == {lengths[i] : i \in DOMAIN lengths}
         IN  Ok(MaxOf(S) - MinOf(S))

\* var_len = (max(sentence_lengths) - min(sentence_lengths)) if sentences else 0
\* max() and min() of an empty list raise ValueError.
var_len(sentences, lengths) ==
    IF sentences # <<>>
    THEN IF lengths = <<>> THEN Raise("ValueError")
         ELSE LET S == {lengths[i] : i \in DOMAIN lengths}
              IN  Ok(MaxOf(S) - MinOf(S))
    ELSE Ok(0)

\* len(set(w.lower() for w in words))
lower_types(words) == Cardinality({lower(words[i]) : i \in DOMAIN words})

\* vocab_richness with the operands of the division exchanged.
vocab_richness_inverted(words) ==
    IF words # <<>> THEN true_div(Len(words), lower_types(words))
    ELSE Ok(<<0, 1>>)

\* vocab_richness = len(set(w.lower() for w in words)) / len(words) if words else 0.0
vocab_richness(words) ==
    IF words # <<>> THEN true_div(lower_types(words), Len(words))
    ELSE Ok(<<0, 1>>)

\* non_stop_words comparing the token as written with the stopwords.
non_stop_words_case_sensitive(words) ==
    SelectSeq(words, LAMBDA w : w \notin _BASIC_STOPWORDS)

\* non_stop_words = [w for w in words if w.lower() not in stopwords]
non_stop_words(words) ==
    SelectSeq(words, LAMBDA w : lower(w) \notin _BASIC_STOPWORDS)

\* Counter(words): the distinct elements in order of first insertion, each
\* with its number of occurrences.
Counter(words) ==
    LET first == {i \in DOMAIN words : \A j \in 1..(i-1) : words[j] # words[i]}
        Rank(i) == Cardinality({j \in first : j <= i})
        At(r)   == CHOOSE i \in first : Rank(i) = r
    IN  [r \in 1..Cardinality(first) |->
            [elem  |-> words[At(r)],
             count |-> Cardinality({j \in DOMAIN words : words[j] = words[At(r)]})]]

\* sorted(items, key=count, reverse=True): stable, so an item goes after every
\* item already placed whose count is at least its own.
RECURSIVE SortedByCountDesc(_, _, _)
SortedByCountDesc(items, i, acc) ==
    IF i > Len(items) THEN acc
    ELSE LET x    == items[i]
             ahead == Cardinality({j \in DOMAIN acc : acc[j].count >= x.count})
         IN  SortedByCountDesc(items, i + 1,
                 SubSeq(acc, 1, ahead) \o <<x>> \o SubSeq(acc, ahead + 1, Len(acc)))

\* most_common without the sort: the first n elements in insertion order.
most_common_unsorted(counter, n) ==
    SubSeq(counter, 1, IF n < Len(counter) THEN n ELSE Len(counter))

\* Counter.most_common(n) = heapq.nlargest(n, items, key=count), which is
\* sorted(items, key=count, reverse=True)[:n].
most_common(counter, n) ==
    LET sorted == SortedByCountDesc(counter, 1, <<>>)
    IN  SubSeq(sorted, 1, IF n < Len(sorted) THEN n ELSE Len(sorted))

\* The n of most_common(5).
TopN == 5

\* freq_words = Counter(non_stop_words).most_common(5)
freq_words(words) == most_common(Counter(non_stop_words(words)), TopN)

\* punctuation_use with a key for every punctuation character, present or not:
\* {c: text.count(c) for c in string.punctuation}
punctuation_use_zero_filled(s) ==
    [c \in string_punctuation |-> Cardinality({i \in DOMAIN s : s[i] = c})]

\* punct = Counter([c for c in text if c in string.punctuation]); dict(punct)
punctuation_use(s) ==
    LET present == {s[i] : i \in DOMAIN s} \cap string_punctuation
    IN  [c \in present |-> Cardinality({i \in DOMAIN s : s[i] = c})]

\* Decimals kept by analyze_text's round(..., 2).
StyleDecimals == 2

analyze_text(raw) ==
    LET txt       == clean_text(raw)
        sentences == split_sentences(txt)
        lengths   == sentence_lengths(sentences)
        avg       == avg_len(sentences, lengths)
        var       == var_len(sentences, lengths)
        words     == fallback_tokens(txt)
        richness  == vocab_richness(words)
        freq      == freq_words(words)
    IN  IF avg.raised \/ var.raised \/ richness.raised
        THEN [called |-> TRUE, raised |-> TRUE]
        ELSE [called |-> TRUE, raised |-> FALSE,
              sentence_length_avg |->
                  py_round_div(avg.value[1], avg.value[2], StyleDecimals),
              sentence_length_var |-> var.value,
              vocab_richness |->
                  py_round_div(richness.value[1], richness.value[2], StyleDecimals),
              frequent_words |-> [i \in 1..Len(freq) |-> freq[i].elem],
              punctuation_use |-> punctuation_use(txt)]

-----------------------------------------------------------------------------
(* analyze_flow_text                                                       *)

\* _unique_types counting the tokens as written, without lower().
unique_types_case_sensitive(tokens) == Cardinality({tokens[i] : i \in DOMAIN tokens})

\* _unique_types(tokens)
unique_types(tokens) == Cardinality({lower(tokens[i]) : i \in DOMAIN tokens})

\* _clamp(x, lo=0.0, hi=1.0) = max(lo, min(hi, x))
clamp(x) == RatMax(<<0, 1>>, RatMin(<<1, 1>>, x))

\* \b at position p (between s[p-1] and s[p]).
WordBoundary(s, p) ==
    LET before == p > 1 /\ IsWordChar(s[p-1])
        after  == p <= Len(s) /\ IsWordChar(s[p])
    IN  before # after

LiteralAt(s, i, lit) ==
    /\ i + Len(lit) - 1 <= Len(s)
    /\ SubSeq(s, i, i + Len(lit) - 1) = lit

\* Length of the match of \b(alt1|alt2|...)\b that starts at i, 0 if none:
\* the first alternative, in the order written, that fits between two \b.
AlternationAt(s, i, alts) ==
    LET fits == {k \in DOMAIN alts :
                    /\ LiteralAt(s, i, alts[k])
                    /\ WordBoundary(s, i + Len(alts[k]))}
    IN  IF ~WordBoundary(s, i) \/ fits = {} THEN 0
        ELSE Len(alts[MinOf(fits)])

\* len(re.findall(pattern, s)): the matches are found left to right, each
\* search starting where the previous match ended.  MatchAt(i) is the length
\* of the pattern's match at i (0 if it does not match there).
RECURSIVE CountMatches(_, _, _)
CountMatches(s, MatchAt(_), from) ==
    LET i == FirstIn(LAMBDA j : MatchAt(j) > 0, from, Len(s))
    IN  IF i = 0 THEN 0 ELSE 1 + CountMatches(s, MatchAt, i + MatchAt(i))

FigurativeMarkers ==
    << <<"l","i","k","e">>, <<"a","s"," ","i","f">>,
       <<"a","s"," ","t","h","o","u","g","h">> >>

Interjections ==
    << <<"h","e","y">>, <<"w","o","w">>, <<"a","h">>, <<"o","h">>,
       <<"h","m","m">>, <<"u","g","h">>, <<"h","a">> >>

Hedges ==
    << <<"m","a","y","b","e">>, <<"k","i","n","d"," ","o","f">>,
       <<"s","o","r","t"," ","o","f">>, <<"p","e","r","h","a","p","s">>,
       <<"s","o","m","e","w","h","a","t">>, <<"a"," ","b","i","t">> >>

BeForms ==
    << <<"b","e">>, <<"b","e","e","n">>, <<"b","e","i","n","g">>, <<"i","s">>,
       <<"w","a","s">>, <<"w","e","r","e">>, <<"a","r","e">> >>

\* The punct_variety list without its em dash: the ASCII marks only.
PlayfulPunctuation_ascii_only == {",", ".", "-", ":", ";", "!", "?", "(", ")"}

\* The marks of the punct_variety list.
PlayfulPunctuation == {",", ".", EmDash, "-", ":", ";", "!", "?", "(", ")"}

\* punct_variety = len(set(ch for ch in text if ch in [...]))
punct_variety(s) == Cardinality({s[i] : i \in DOMAIN s} \cap PlayfulPunctuation)

\* The figurative markers counted by their first word alone.
figurative_hits_only_like(low) ==
    CountMatches(low, LAMBDA i : AlternationAt(low, i, << <<"l","i","k","e">> >>), 1)

\* len(re.findall(r"\b(like|as if|as though)\b", txt_lower))
figurative_hits(low) ==
    CountMatches(low, LAMBDA i : AlternationAt(low, i, FigurativeMarkers), 1)

\* len(re.findall(r"\b(hey|wow|ah|oh|hmm|ugh|ha)\b", txt_lower))
interjection_hits(low) ==
    CountMatches(low, LAMBDA i : AlternationAt(low, i, Interjections), 1)

\* len(re.findall(r"\b(maybe|kind of|sort of|perhaps|somewhat|a bit)\b", txt_lower))
hedge_hits(low) ==
    CountMatches(low, LAMBDA i : AlternationAt(low, i, Hedges), 1)

\* Length of the match of \b(be|...|are)\b\s+\b\w+ed\b at i, 0 if none: a
\* form of "be", all the whitespace after it, then a whole run of \w of at
\* least three characters that ends in "ed".
PassiveAt(s, i) ==
    LET be   == AlternationAt(s, i, BeForms)
        w    == FirstIn(LAMBDA j : s[j] \notin Whitespace, i + be, Len(s))
        stop == FirstIn(LAMBDA j : ~IsWordChar(s[j]), w, Len(s))
        e    == IF stop = 0 THEN Len(s) ELSE stop - 1
    IN  IF be = 0 \/ w = 0 \/ w = i + be THEN 0
        ELSE IF IsWordChar(s[w]) /\ e - w + 1 >= 3
                /\ SubSeq(s, e - 1, e) = <<"e","d">>
             THEN e - i + 1
             ELSE 0

\* len(re.findall(r"\b(be|been|being|is|was|were|are)\b\s+\b\w+ed\b", txt_lower))
passive_cues(low) == CountMatches(low, LAMBDA i : PassiveAt(low, i), 1)

\* ttr = (types / word_count) if word_count else 0.0
flow_ttr(types, word_count) ==
    IF word_count # 0 THEN true_div(types, word_count) ELSE Ok(<<0, 1>>)

\* repetition_rate = 1.0 - (types / word_count) if word_count else 0.0
flow_repetition(types, word_count) ==
    IF word_count # 0
    THEN LET q == true_div(types, word_count)
         IN  IF q.raised THEN q ELSE Ok(RatSub(<<1, 1>>, Rat(q.value[1], q.value[2])))
    ELSE Ok(<<0, 1>>)

\* The cap of min(punct_variety, 6).
PunctVarietyCap == 6

\* playfulness without the outer _clamp.
playfulness_unclamped(s, low, ttr) ==
    LET pv == punct_variety(s)
    IN  RatAdd(RatAdd(RatAdd(
            RatMul(<<15, 100>>, <<IF pv < PunctVarietyCap THEN pv ELSE PunctVarietyCap, 1>>),
            RatMul(<<2, 10>>, <<figurative_hits(low), 1>>)),
            RatMul(<<1, 10>>, <<interjection_hits(low), 1>>)),
            RatMul(<<6, 10>>, clamp(RatMul(ttr, <<10, 6>>))))

\* playfulness = _clamp(0.15 * min(punct_variety, 6) + 0.2 * figurative_hits
\*                      + 0.1 * interjections + 0.6 * _clamp(ttr / 0.6))
playfulness(s, low, ttr) ==
    LET pv == punct_variety(s)
    IN  clamp(RatAdd(RatAdd(RatAdd(
            RatMul(<<15, 100>>, <<IF pv < PunctVarietyCap THEN pv ELSE PunctVarietyCap, 1>>),
            RatMul(<<2, 10>>, <<figurative_hits(low), 1>>)),
            RatMul(<<1, 10>>, <<interjection_hits(low), 1>>)),
            RatMul(<<6, 10>>, clamp(RatMul(ttr, <<10, 6>>)))))

\* avg_sent_len = (sum(len(_tokenize_alpha(s)) for s in sentences)
\*                 / len(sentences)) if sentences else 0.0
avg_sent_len(sentences) ==
    IF sentences # <<>>
    THEN true_div(SumOver(LAMBDA i : Len(tokenize_alpha(sentences[i])), 1, Len(sentences)),
                  Len(sentences))
    ELSE Ok(<<0, 1>>)

\* The clarity expression with the weights of the hedge term and the passive
\* term exchanged.
clarity_weights_exchanged(avg, hedges, passive) ==
    LET over == RatMax(<<0, 1>>, RatSub(avg, <<18, 1>>))
    IN  clamp(RatAdd(RatAdd(
            RatMul(<<6, 10>>, clamp(RatSub(<<1, 1>>, RatMul(over, <<1, 22>>)))),
            RatMul(<<15, 100>>, clamp(RatSub(<<1, 1>>, Rat(hedges, 4))))),
            RatMul(<<25, 100>>, clamp(RatSub(<<1, 1>>, Rat(passive, 3))))))

\* _clamp(0.6 * _clamp(1.0 - (max(0.0, avg_sent_len - 18.0) / 22.0))
\*        + 0.25 * _clamp(1.0 - hedges / 4.0)
\*        + 0.15 * _clamp(1.0 - passive_cues / 3.0))
clarity_expression(avg, hedges, passive) ==
    LET over == RatMax(<<0, 1>>, RatSub(avg, <<18, 1>>))
    IN  clamp(RatAdd(RatAdd(
            RatMul(<<6, 10>>, clamp(RatSub(<<1, 1>>, RatMul(over, <<1, 22>>)))),
            RatMul(<<25, 100>>, clamp(RatSub(<<1, 1>>, Rat(hedges, 4))))),
            RatMul(<<15, 100>>, clamp(RatSub(<<1, 1>>, Rat(passive, 3))))))

\* hedges = len(re.findall(...)); passive_cues = len(re.findall(...));
\* clarity = _clamp(...)
clarity(low, avg) == clarity_expression(avg, hedge_hits(low), passive_cues(low))

\* The length a rare token must exceed (len(t) > 6).
RareLength == 6

\* The rare tokens with the length test off by one: len(t) >= 6.
rare_tokens_from_six(tokens) ==
    SelectSeq([i \in 1..Len(tokens) |-> lower(tokens[i])],
              LAMBDA t : t \notin _BASIC_STOPWORDS /\ Len(t) >= RareLength)

\* rare_tokens = [t for t in (tok.lower() for tok in tokens)
\*                if t not in common_words and len(t) > 6]
rare_tokens(tokens) ==
    SelectSeq([i \in 1..Len(tokens) |-> lower(tokens[i])],
              LAMBDA t : t \notin _BASIC_STOPWORDS /\ Len(t) > RareLength)

\* rare_rate = len(rare_tokens) / word_count if word_count else 0.0
rare_rate(tokens, word_count) ==
    IF word_count # 0 THEN true_div(Len(rare_tokens(tokens)), word_count)
    ELSE Ok(<<0, 1>>)

\* creativity = _clamp(0.7 * _clamp(rare_rate / 0.15) + 0.3 * _clamp(ttr / 0.6))
creativity(rare, ttr) ==
    clamp(RatAdd(RatMul(<<7, 10>>, clamp(RatMul(rare, <<100, 15>>))),
                 RatMul(<<3, 10>>, clamp(RatMul(ttr, <<10, 6>>)))))

\* Decimals kept by analyze_flow_text's round(..., 4).
FlowDecimals == 4

\* round(_clamp(repetition_rate), 4): with tokens 1.0 - types / word_count
\* lies in [0, 1), which _clamp returns as it is; without tokens it is 0.0.
rounded_repetition(types, word_count) ==
    IF word_count # 0 THEN py_round_one_minus_div(types, word_count, FlowDecimals)
    ELSE 0

\* The dicts analyze_flow_text(raw) can return.
analyze_flow_text(raw) ==
    LET tokens     == tokenize_alpha(raw)
        word_count == Len(tokens)
        types      == unique_types(tokens)
        ttr        == flow_ttr(types, word_count)
        repetition == flow_repetition(types, word_count)
        low        == lower(raw)
        sentences  == split_sentences(raw)
        avg        == avg_sent_len(sentences)
        rare       == rare_rate(tokens, word_count)
    IN  IF ttr.raised \/ repetition.raised \/ avg.raised \/ rare.raised
        THEN {[called |-> TRUE, raised |-> TRUE]}
        ELSE LET t == Rat(ttr.value[1], ttr.value[2])
                 a == Rat(avg.value[1], avg.value[2])
                 r == Rat(rare.value[1], rare.value[2])
             IN  {[called |-> TRUE, raised |-> FALSE,
                   word_count |-> word_count,
                   vocab_type_count |-> types,
                   vocab_ttr |-> py_round_div(ttr.value[1], ttr.value[2], FlowDecimals),
                   repetition_rate |-> rounded_repetition(types, word_count),
                   playfulness_score |-> pl,
                   clarity_score |-> cl,
                   creativity_score |-> cr] :
                  pl  \in round_outcomes(playfulness(raw, low, t), FlowDecimals),
                  cl  \in round_outcomes(clarity(low, a), FlowDecimals),
                  cr  \in round_outcomes(creativity(r, t), FlowDecimals)}

-----------------------------------------------------------------------------
(* compute_flow_composite                                                  *)

\* The goal_focus argument: None, or a list of goal names.
PyNone == [none |-> TRUE]

PyList(items) == [none |-> FALSE, items |-> items]

\* (goal_focus or [])
or_empty_list(arg) == IF arg.none THEN <<>> ELSE arg.items

\* dict.get(key, default)
dict_get(d, key, default) == IF key \in DOMAIN d THEN d[key] ELSE default

\* f"{g}_score"
score_key(g) == g \o "_score"

\* A score of the metrics dict, kept to four decimals, as a float.
FromUnits(v) == Rat(v, Pow(10, FlowDecimals))

\* words_per_minute guarded by elapsed_seconds >= 0 instead of > 0.
words_per_minute_guard_ge(elapsed, wc) ==
    IF elapsed >= 0
    THEN LET q == true_div(60 * wc, elapsed)
         IN  IF q.raised THEN q ELSE Ok(Rat(q.value[1], q.value[2]))
    ELSE Ok(<<0, 1>>)

\* wpm = (60.0 * wc / elapsed_seconds) if elapsed_seconds and elapsed_seconds > 0 else 0.0
words_per_minute(elapsed, wc) ==
    IF elapsed # 0 /\ elapsed > 0
    THEN LET q == true_div(60 * wc, elapsed)
         IN  IF q.raised THEN q ELSE Ok(Rat(q.value[1], q.value[2]))
    ELSE Ok(<<0, 1>>)

\* goal_scores that skips the goal names without a score field.
goal_scores_known_only(m, arg) ==
    LET names == SelectSeq(or_empty_list(arg), LAMBDA g : score_key(g) \in DOMAIN m)
    IN  [i \in 1..Len(names) |-> m[score_key(names[i])]]

\* goal_scores = [metrics.get(f"{g}_score", 0.0) for g in (goal_focus or [])]
goal_scores(m, arg) ==
    LET names == or_empty_list(arg)
    IN  [i \in 1..Len(names) |-> dict_get(m, score_key(names[i]), 0)]

\* goal_avg dividing by the number of goals there are instead of the number
\* selected.
goal_avg_over_all_goals(scores) ==
    IF scores # <<>>
    THEN LET q == true_div(SumSeq(scores), 3)
         IN  IF q.raised THEN q
             ELSE Ok(Rat(q.value[1], q.value[2] * Pow(10, FlowDecimals)))
    ELSE Ok(<<0, 1>>)

\* goal_avg = sum(goal_scores) / len(goal_scores) if goal_scores else 0.0
goal_avg(scores) ==
    IF scores # <<>>
    THEN LET q == true_div(SumSeq(scores), Len(scores))
         IN  IF q.raised THEN q
             ELSE Ok(Rat(q.value[1], q.value[2] * Pow(10, FlowDecimals)))
    ELSE Ok(<<0, 1>>)

\* The wpm term without its _clamp: the reward keeps growing above 40 wpm.
wpm_term_unclamped(wpm) == RatMul(<<10, 1>>, RatMul(wpm, <<1, 40>>))

\* 10.0 * _clamp(wpm / 40.0)
wpm_term(wpm) == RatMul(<<10, 1>>, clamp(RatMul(wpm, <<1, 40>>)))

\* The ttr term with the weight of the wpm term.
ttr_term_weight_10(ttr) == RatMul(<<10, 1>>, clamp(RatMul(ttr, <<10, 6>>)))

\* 20.0 * _clamp(ttr / 0.6)
ttr_term(ttr) == RatMul(<<20, 1>>, clamp(RatMul(ttr, <<10, 6>>)))

\* 20.0 * _clamp(goal_avg)
goal_term(avg) == RatMul(<<20, 1>>, clamp(avg))

\* The repetition penalty without its _clamp: it keeps growing above 0.5.
repetition_term_unclamped(rep) == RatMul(<<10, 1>>, RatMul(rep, <<2, 1>>))

\* 10.0 * _clamp(rep * 2.0)
repetition_term(rep) == RatMul(<<10, 1>>, clamp(RatMul(rep, <<2, 1>>)))

\* score = 100.0 + wpm term + ttr term + goal term - repetition term
composite_score(wpm, ttr, avg, rep) ==
    RatSub(RatAdd(RatAdd(RatAdd(<<100, 1>>, wpm_term(wpm)), ttr_term(ttr)),
                  goal_term(avg)),
           repetition_term(rep))

\* Decimals kept by compute_flow_composite's round(score, 2).
CompositeDecimals == 2

\* The values compute_flow_composite(elapsed, m, arg) can return, in
\* hundredths; elapsed is a whole number of seconds.
compute_flow_composite(elapsed, m, arg) ==
    LET wc  == dict_get(m, "word_count", 0)
        wpm == words_per_minute(elapsed, wc)
        ttr == FromUnits(dict_get(m, "vocab_ttr", 0))
        rep == FromUnits(dict_get(m, "repetition_rate", 0))
        avg == goal_avg(goal_scores(m, arg))
    IN  IF wpm.raised \/ avg.raised
        THEN {[called |-> TRUE, raised |-> TRUE]}
        ELSE {[called |-> TRUE, raised |-> FALSE, value |-> v] :
              v \in round_outcomes(composite_score(wpm.value, ttr, avg.value, rep),
                                   CompositeDecimals)}

-----------------------------------------------------------------------------
(* The LLM collaborators: src/src/ai_feedback.py and src/src/ai_grader.py  *)

\* What openai.ChatCompletion.create does for one call: it raises an error
\* derived from Exception with the message msg, or it returns a response.
\* The response lacks a part of resp["choices"][0]["message"]["content"]
\* (the key choices, a first choice, the key message, the key content), or
\* it has the content given (None, or a str).
LlmRaises(exc, msg) == [kind |-> "raises", exc |-> exc, msg |-> msg]

LlmMalformed(missing) == [kind |-> "malformed", missing |-> missing]

LlmReturns(content) == [kind |-> "returns", content |-> content]

PyStr(s) == [none |-> FALSE, str |-> s]

PyNum(n) == [none |-> FALSE, num |-> n]

\* A Python dict is a function on its keys; a value that may be None, a
\* number, a str, a list or a dict is a record with the field none.
PyDict(d) == [none |-> FALSE, dict |-> d]

IsDict(v) == ~v.none /\ "dict" \in DOMAIN v

IsStr(v) == ~v.none /\ "str" \in DOMAIN v

IsPyList(v) == ~v.none /\ "items" \in DOMAIN v

\* type(v).__name__
bare_type_name(v) ==
    IF v.none THEN <<"N","o","n","e","T","y","p","e">>
    ELSE IF "num" \in DOMAIN v THEN <<"i","n","t">>
    ELSE IF "str" \in DOMAIN v THEN <<"s","t","r">>
    ELSE IF "items" \in DOMAIN v THEN <<"l","i","s","t">>
    ELSE <<"d","i","c","t">>

\* type(v).__name__ in single quotes
type_name(v) == <<"'">> \o bare_type_name(v) \o <<"'">>

\* str(e) of the AttributeError of v.attr
NoAttribute(v, attr) ==
    type_name(v) \o
    <<" ","o","b","j","e","c","t"," ","h","a","s"," ","n","o"," ","a","t",
      "t","r","i","b","u","t","e"," ","'">>
    \o attr \o <<"'">>

\* str(e) of the KeyError of d[key]
NoKey(key) == <<"'">> \o key \o <<"'">>

\* Python's truth value of v, negated: None, 0, "", [] and {} are false.
falsy(v) ==
    \/ v.none
    \/ "num" \in DOMAIN v /\ v.num = 0
    \/ "str" \in DOMAIN v /\ Len(v.str) = 0
    \/ "items" \in DOMAIN v /\ Len(v.items) = 0
    \/ "dict" \in DOMAIN v /\ DOMAIN v.dict = {}

\* resp["choices"][0]["message"]["content"], the call included.
chat_content(llm) ==
    CASE llm.kind = "raises" -> Raise(llm.msg)
      [] llm.kind = "returns" -> Ok(llm.content)
      [] llm.kind = "malformed" ->
           (CASE llm.missing = "choices" -> Raise(NoKey(<<"c","h","o","i","c","e","s">>))
              [] llm.missing = "first" ->
                   Raise(<<"l","i","s","t"," ","i","n","d","e","x"," ","o","u","t"," ",
                           "o","f"," ","r","a","n","g","e">>)
              [] llm.missing = "message" -> Raise(NoKey(<<"m","e","s","s","a","g","e">>))
              [] llm.missing = "content" -> Raise(NoKey(<<"c","o","n","t","e","n","t">>)))

\* content.strip(): AttributeError on a content that is no str.
content_strip(content) ==
    IF IsStr(content) THEN Ok(strip(content.str))
    ELSE Raise(NoAttribute(content, <<"s","t","r","i","p">>))

\* f"(Fallback) Reflection unavailable: {e}. One nudge: read once out loud
\* and trim any filler."
companion_fallback(e) ==
    <<"(","F","a","l","l","b","a","c","k",")"," ","R","e","f","l","e","c",
      "t","i","o","n"," ","u","n","a","v","a","i","l","a","b","l","e",":",
      " ">>
    \o e \o
    <<"."," ","O","n","e"," ","n","u","d","g","e",":"," ","r","e","a","d",
      " ","o","n","c","e"," ","o","u","t"," ","l","o","u","d"," ","a","n",
      "d"," ","t","r","i","m"," ","a","n","y"," ","f","i","l","l","e","r",
      ".">>

\* get_ai_feedback: try: resp = create(...); return content.strip()
\* except Exception as e: return the fallback text.
get_ai_feedback(llm) ==
    LET content == chat_content(llm)
    IN  IF content.raised
        THEN [called |-> TRUE, raised |-> FALSE, value |-> companion_fallback(content.value)]
        ELSE LET stripped == content_strip(content.value)
             IN  [called |-> TRUE, raised |-> FALSE,
                  value |-> IF stripped.raised THEN companion_fallback(stripped.value)
                            ELSE stripped.value]

\* "Nice burst. Keep momentum(em dash)state one idea plainly, then add one
\* vivid image."
flow_fallback ==
    <<"N","i","c","e"," ","b","u","r","s","t","."," ","K","e","e","p"," ",
      "m","o","m","e","n","t","u","m",EmDash,"s","t","a","t","e"," ","o",
      "n","e"," ","i","d","e","a"," ","p","l","a","i","n","l","y",","," ",
      "t","h","e","n"," ","a","d","d"," ","o","n","e"," ","v","i","v","i",
      "d"," ","i","m","a","g","e",".">>

\* get_flow_feedback: try: resp = create(...); return content.strip()
\* except Exception: return the fallback text.
get_flow_feedback(llm) ==
    LET content == chat_content(llm)
    IN  IF content.raised
        THEN [called |-> TRUE, raised |-> FALSE, value |-> flow_fallback]
        ELSE LET stripped == content_strip(content.value)
             IN  [called |-> TRUE, raised |-> FALSE,
                  value |-> IF stripped.raised THEN flow_fallback ELSE stripped.value]

\* A character of repr(str) that is neither the backslash, the quote, \t,
\* \n nor \r: itself when it is printable, else \xhh, \uhhhh or \Uhhhhhhhh
\* by the size of its code point cp.
repr_escape(c, cp) ==
    IF isprintable(cp) THEN <<c>>
    ELSE IF cp < 256 THEN <<"\\", "x">> \o hex_digits(cp, 2)
    ELSE IF cp < 65536 THEN <<"\\", "u">> \o hex_digits(cp, 4)
    ELSE <<"\\", "U">> \o hex_digits(cp, 8)

\* One character of repr(str): the escapes of the backslash, of the quote
\* in use and of the characters that are not printable.
repr_char(c, quote) ==
    CASE c = "\\" -> <<"\\", "\\">>
      [] c = quote -> <<"\\", quote>>
      [] c = "\t" -> <<"\\", "t">>
      [] c = "\n" -> <<"\\", "n">>
      [] c = "\r" -> <<"\\", "r">>
      [] OTHER -> repr_escape(c, ord(c))

\* The quote of repr(s).
repr_quote(s) ==
    IF (\E i \in DOMAIN s : s[i] = "'") /\ ~(\E i \in DOMAIN s : s[i] = "\"")
    THEN "\"" ELSE "'"

\* s between two quotes, its characters escaped.
quoted(s, quote) ==
    <<quote>> \o FlatMap(LAMBDA i : repr_char(s[i], quote), 1, Len(s)) \o <<quote>>

\* repr(s) of a str: in double quotes when s has a single quote and no
\* double quote, else in single quotes.
py_repr(s) == quoted(s, repr_quote(s))

\* digit (["_"] digit)*
IsDigitPart(q) ==
    /\ Len(q) > 0
    /\ \A i \in DOMAIN q : q[i] \in Digits \cup {"_"}
    /\ q[1] \in Digits
    /\ q[Len(q)] \in Digits
    /\ \A i \in 1..(Len(q) - 1) : ~(q[i] = "_" /\ q[i + 1] = "_")

\* int() of one decimal digit
digit_value(c) == CHOOSE n \in 0..9 : ToString(n) = c

\* The number the digits write; there are at most nine of them.
RECURSIVE digits_value(_)
digits_value(q) ==
    IF Len(q) = 0 THEN 0
    ELSE 10 * digits_value(SubSeq(q, 1, Len(q) - 1)) + digit_value(q[Len(q)])

\* The decimal digits of n >= 0.
RECURSIVE int_digits(_)
int_digits(n) ==
    IF n < 10 THEN <<ToString(n)>> ELSE int_digits(n \div 10) \o <<ToString(n % 10)>>

\* A finite float is a decimal: its sign, its digits from the first to the
\* last that is not 0, and its exponent, the power of ten just above it:
\* the decimal is 0.digits times ten to the exponent, and 0.0 has no digits.
\* binary64 rounds within its range; the decimal here is the exact value of
\* the literal.

\* The digit of x at place i, counted from its first digit.
digit_at(x, i) == IF i <= Len(x.digits) THEN digit_value(x.digits[i]) ELSE 0

\* |x| < |y| for two decimals of one exponent: the first place where they
\* differ decides.
DigitsLess(x, y, first) == first # 0 /\ digit_at(x, first) < digit_at(y, first)

\* |x| < |y| for two decimals that are not 0
DecimalLess(x, y) ==
    IF x.exponent # y.exponent THEN x.exponent < y.exponent
    ELSE DigitsLess(x, y, FirstIn(LAMBDA i : digit_at(x, i) # digit_at(y, i), 1,
                                  Len(x.digits) + Len(y.digits)))

\* 2^1024 - 2^970: a literal of this size or more is inf.
FloatOverflow ==
    [negative |-> FALSE, exponent |-> 309, digits |->
        <<"1","7","9","7","6","9","3","1","3","4","8","6","2","3","1","5",
          "8","0","7","9","3","7","2","8","9","7","1","4","0","5","3","0",
          "3","4","1","5","0","7","9","9","3","4","1","3","2","7","1","0",
          "0","3","7","8","2","6","9","3","6","1","7","3","7","7","8","9",
          "8","0","4","4","4","9","6","8","2","9","2","7","6","4","7","5",
          "0","9","4","6","6","4","9","0","1","7","9","7","7","5","8","7",
          "2","0","7","0","9","6","3","3","0","2","8","6","4","1","6","6",
          "9","2","8","8","7","9","1","0","9","4","6","5","5","5","5","4",
          "7","8","5","1","9","4","0","4","0","2","6","3","0","6","5","7",
          "4","8","8","6","7","1","5","0","5","8","2","0","6","8","1","9",
          "0","8","9","0","2","0","0","0","7","0","8","3","8","3","6","7",
          "6","2","7","3","8","5","4","8","4","5","8","1","7","7","1","1",
          "5","3","1","7","6","4","4","7","5","7","3","0","2","7","0","0",
          "6","9","8","5","5","5","7","1","3","6","6","9","5","9","6","2",
          "2","8","4","2","9","1","4","8","1","9","8","6","0","8","3","4",
          "9","3","6","4","7","5","2","9","2","7","1","9","0","7","4","1",
          "6","8","4","4","4","3","6","5","5","1","0","7","0","4","3","4",
          "2","7","1","1","5","5","9","6","9","9","5","0","8","0","9","3",
          "0","4","2","8","8","0","1","7","7","9","0","4","1","7","4","4",
          "9","7","7","9","2">>]

\* 2^-1075: a literal of this size or less is 0.0.
FloatUnderflow ==
    [negative |-> FALSE, exponent |-> 0 - 323, digits |->
        <<"2","4","7","0","3","2","8","2","2","9","2","0","6","2","3","2",
          "7","2","0","8","8","2","8","4","3","9","6","4","3","4","1","1",
          "0","6","8","6","1","8","2","5","2","9","9","0","1","3","0","7",
          "1","6","2","3","8","2","2","1","2","7","9","2","8","4","1","2",
          "5","0","3","3","7","7","5","3","6","3","5","1","0","4","3","7",
          "5","9","3","2","6","4","9","9","1","8","1","8","0","8","1","7",
          "9","9","6","1","8","9","8","9","8","2","8","2","3","4","7","7",
          "2","2","8","5","8","8","6","5","4","6","3","3","2","8","3","5",
          "5","1","7","7","9","6","9","8","9","8","1","9","9","3","8","7",
          "3","9","8","0","0","5","3","9","0","9","3","9","0","6","3","1",
          "5","0","3","5","6","5","9","5","1","5","5","7","0","2","2","6",
          "3","9","2","2","9","0","8","5","8","3","9","2","4","4","9","1",
          "0","5","1","8","4","4","3","5","9","3","1","8","0","2","8","4",
          "9","9","3","6","5","3","6","1","5","2","5","0","0","3","1","9",
          "3","7","0","4","5","7","6","7","8","2","4","9","2","1","9","3",
          "6","5","6","2","3","6","6","9","8","6","3","6","5","8","4","8",
          "0","7","5","7","0","0","1","5","8","5","7","6","9","2","6","9",
          "9","0","3","7","0","6","3","1","1","9","2","8","2","7","9","5",
          "5","8","5","5","1","3","3","2","9","2","7","8","3","4","3","3",
          "8","4","0","9","3","5","1","9","7","8","0","1","5","5","3","1",
          "2","4","6","5","9","7","2","6","3","5","7","9","5","7","4","6",
          "2","2","7","6","6","4","6","5","2","7","2","8","2","7","2","2",
          "0","0","5","6","3","7","4","0","0","6","4","8","5","4","9","9",
          "9","7","7","0","9","6","5","9","9","4","7","0","4","5","4","0",
          "2","0","8","2","8","1","6","6","2","2","6","2","3","7","8","5",
          "7","3","9","3","4","5","0","7","3","6","3","3","9","0","0","7",
          "9","6","7","7","6","1","9","3","0","5","7","7","5","0","6","7",
          "4","0","1","7","6","3","2","4","6","7","3","6","0","0","9","6",
          "8","9","5","1","3","4","0","5","3","5","5","3","7","4","5","8",
          "5","1","6","6","6","1","1","3","4","2","2","3","7","6","6","6",
          "7","8","6","0","4","1","6","2","1","5","9","6","8","0","4","6",
          "1","9","1","4","4","6","7","2","9","1","8","4","0","3","0","0",
          "5","3","0","0","5","7","5","3","0","8","4","9","0","4","8","7",
          "6","5","3","9","1","7","1","1","3","8","6","5","9","1","6","4",
          "6","2","3","9","5","2","4","9","1","2","6","2","3","6","5","3",
          "8","8","1","8","7","9","6","3","6","2","3","9","3","7","3","2",
          "8","0","4","2","3","8","9","1","0","1","8","6","7","2","3","4",
          "8","4","9","7","6","6","8","2","3","5","0","8","9","8","6","3",
          "3","8","8","5","8","7","9","2","5","6","2","8","3","0","2","7",
          "5","5","9","9","5","6","5","7","5","2","4","4","5","5","5","0",
          "7","2","5","5","1","8","9","3","1","3","6","9","0","8","3","6",
          "2","5","4","7","7","9","1","8","6","9","4","8","6","6","7","9",
          "9","4","9","6","8","3","2","4","0","4","9","7","0","5","8","2",
          "1","0","2","8","5","1","3","1","8","5","4","5","1","3","9","6",
          "2","1","3","8","3","7","7","2","2","8","2","6","1","4","5","4",
          "3","7","6","9","3","4","1","2","5","3","2","0","9","8","5","9",
          "1","3","2","7","6","6","7","2","3","6","3","2","8","1","2","5">>]

\* A decimal that is not 0 and whose exponent is beyond this cap, above or
\* below, is inf or 0.0; the exponent of a decimal is exact up to the cap
\* and cut at it. The exponent a literal writes is held in two parts,
\* high * ExponentCap + low.
ExponentCap == 100000

\* 0.0 or -0.0
float_zero(negative) == [negative |-> negative, digits |-> <<>>, exponent |-> 0]

\* The float of a decimal x that is not 0: inf from 2^1024 - 2^970 on, 0.0
\* up to 2^-1075.
float_in_range(x) ==
    IF ~DecimalLess(x, FloatOverflow) THEN (IF x.negative THEN "-inf" ELSE "inf")
    ELSE IF ~DecimalLess(FloatUnderflow, x) THEN float_zero(x.negative)
    ELSE x

\* high * ExponentCap + low, cut at ExponentCap above and below.
exponent_cut(high, low) ==
    IF high + (low \div ExponentCap) > 0 THEN ExponentCap
    ELSE IF high + (low \div ExponentCap) < 0 - 1 THEN 0 - ExponentCap
    ELSE (high + (low \div ExponentCap)) * ExponentCap + (low % ExponentCap)

\* The exponent of the decimal whose first digit stands shift places before
\* the point, times ten to the exponent written.
decimal_exponent(shift, exp_negative, exp_high, exp_low) ==
    IF exp_negative
    THEN exponent_cut((shift \div ExponentCap) - exp_high, (shift % ExponentCap) - exp_low)
    ELSE exponent_cut((shift \div ExponentCap) + exp_high, (shift % ExponentCap) + exp_low)

\* The digits all from the first that is not 0, at lead, to the last, with
\* the point after the first `point` of them, times ten to the exponent
\* written.
float_trimmed(negative, all, point, exp_negative, exp_high, exp_low, lead, last) ==
    IF lead = 0 THEN float_zero(negative)
    ELSE float_in_range([negative |-> negative, digits |-> SubSeq(all, lead, last),
                         exponent |-> decimal_exponent(point - lead + 1, exp_negative,
                                                       exp_high, exp_low)])

\* The float of the digits all with the point after the first `point` of
\* them, times ten to the exponent written.
decimal_float(negative, all, point, exp_negative, exp_high, exp_low) ==
    float_trimmed(negative, all, point, exp_negative, exp_high, exp_low,
                  FirstIn(LAMBDA i : all[i] # "0", 1, Len(all)),
                  LastIn(LAMBDA i : all[i] # "0", 1, Len(all)))

\* The digits of a digit part.
digits_of(q) == SelectSeq(q, LAMBDA c : c \in Digits)

\* The digits of a digit part from the first that is not 0.
significant(digits, lead) ==
    IF lead = 0 THEN <<>> ELSE SubSeq(digits, lead, Len(digits))

\* The high part of the exponent that significant digits write: what stands
\* before the last five of them. Beyond ten digits the exponent outweighs
\* the places of any mantissa, and ExponentCap stands for it.
exponent_high(digits) ==
    IF Len(digits) > 10 THEN ExponentCap
    ELSE IF Len(digits) <= 5 THEN 0
    ELSE digits_value(SubSeq(digits, 1, Len(digits) - 5))

\* The low part of the exponent: what the last five digits write.
exponent_low(digits) ==
    IF Len(digits) > 10 THEN 0
    ELSE IF Len(digits) <= 5 THEN digits_value(digits)
    ELSE digits_value(SubSeq(digits, Len(digits) - 4, Len(digits)))

\* The significant digits of the exponent a digit part writes.
exponent_digits(q) ==
    significant(digits_of(q), FirstIn(LAMBDA i : digits_of(q)[i] # "0", 1, Len(digits_of(q))))

\* str(e) of the ValueError of float(s)
NotAFloat(s) ==
    <<"c","o","u","l","d"," ","n","o","t"," ","c",
                            "o","n","v","e","r","t"," ","s","t","r","i",
                            "n","g"," ","t","o"," ","f","l","o","a","t",
                            ":"," ">>
    \o py_repr(s)

\* The float of the digits before and after the point and of the exponent.
float_of_digits(negative, whole, fraction, exp_negative, exponent) ==
    decimal_float(negative, whole \o fraction, Len(whole), exp_negative,
                  exponent_high(exponent), exponent_low(exponent))

\* float(s) of a str, its parts found: the digits before and after the
\* point, and the exponent if has_exp.
float_of_parts(s, negative, whole, fraction, has_exp, exp_negative, exp_body) ==
    IF /\ Len(whole) = 0 \/ IsDigitPart(whole)
       /\ Len(fraction) = 0 \/ IsDigitPart(fraction)
       /\ Len(whole) > 0 \/ Len(fraction) > 0
       /\ ~has_exp \/ IsDigitPart(exp_body)
    THEN Ok(float_of_digits(negative, digits_of(whole), digits_of(fraction), exp_negative,
                            IF has_exp THEN exponent_digits(exp_body) ELSE <<>>))
    ELSE Raise(NotAFloat(s))

\* The mantissa split at its first point, at dot_at.
float_of_mantissa(s, negative, mantissa, dot_at, has_exp, exp_negative, exp_body) ==
    IF dot_at = 0
    THEN float_of_parts(s, negative, mantissa, <<>>, has_exp, exp_negative, exp_body)
    ELSE float_of_parts(s, negative, SubSeq(mantissa, 1, dot_at - 1),
                        SubSeq(mantissa, dot_at + 1, Len(mantissa)),
                        has_exp, exp_negative, exp_body)

\* The exponent split into its sign and its digit part.
float_of_exponent(s, negative, mantissa, has_exp, exponent) ==
    IF Len(exponent) > 0 /\ exponent[1] \in {"+", "-"}
    THEN float_of_mantissa(s, negative, mantissa,
                           FirstIn(LAMBDA i : mantissa[i] = ".", 1, Len(mantissa)),
                           has_exp, exponent[1] = "-", SubSeq(exponent, 2, Len(exponent)))
    ELSE float_of_mantissa(s, negative, mantissa,
                           FirstIn(LAMBDA i : mantissa[i] = ".", 1, Len(mantissa)),
                           has_exp, FALSE, exponent)

\* The body split at its first e or E, at e_at.
float_of_number(s, negative, body, e_at) ==
    IF e_at = 0 THEN float_of_exponent(s, negative, body, FALSE, <<>>)
    ELSE float_of_exponent(s, negative, SubSeq(body, 1, e_at - 1), TRUE,
                           SubSeq(body, e_at + 1, Len(body)))

\* What follows the sign: inf, infinity or nan in any case, or a number.
float_of_body(s, negative, body) ==
    IF lower(body) \in {<<"i","n","f">>, <<"i","n","f","i","n","i","t","y">>}
    THEN Ok(IF negative THEN "-inf" ELSE "inf")
    ELSE IF lower(body) = <<"n","a","n">> THEN Ok("nan")
    ELSE float_of_number(s, negative, body,
                         FirstIn(LAMBDA i : body[i] \in {"e", "E"}, 1, Len(body)))

\* The text float() parses, split into its sign and what follows.
float_of_stripped(s, stripped) ==
    IF Len(stripped) > 0 /\ stripped[1] \in {"+", "-"}
    THEN float_of_body(s, stripped[1] = "-", SubSeq(stripped, 2, Len(stripped)))
    ELSE float_of_body(s, FALSE, stripped)

\* What float() reads for one character of a str that is not all ASCII:
\* the character itself below U+007F, a space for whitespace, the ASCII
\* digit of a decimal digit, and ? for any other, where the text ends.
float_ascii_char(c, cp) ==
    IF cp < 127 THEN c
    ELSE IF c \in Whitespace THEN " "
    ELSE IF decimal(cp) >= 0 THEN ToString(decimal(cp))
    ELSE "?"

\* The characters of s as float() reads them, up to the one at bad if
\* there is one.
float_ascii_cut(s, bad) ==
    [i \in 1..(IF bad = 0 THEN Len(s) ELSE bad) |-> float_ascii_char(s[i], ord(s[i]))]

\* The ASCII text float() reads for s: s itself when it is all ASCII, else
\* its characters as float() reads them up to the first that is neither
\* ASCII, whitespace nor a decimal digit.
float_ascii(s) ==
    IF \A i \in DOMAIN s : Len(s[i]) = 1 \/ ord(s[i]) < 128 THEN s
    ELSE float_ascii_cut(s, FirstIn(LAMBDA i : /\ Len(s[i]) > 1
                                               /\ float_ascii_char(s[i], ord(s[i])) = "?",
                                    1, Len(s)))

\* The whitespace float() skips at both ends of the text it reads: space,
\* \t, \n, \v, \f and \r.
float_space == {" ", "\t", "\n", "U+000B", "\f", "\r"}

\* The text between the whitespace float() skips at both ends.
float_strip(s) ==
    LET lo == FirstIn(LAMBDA i : s[i] \notin float_space, 1, Len(s))
        hi == LastIn(LAMBDA i : s[i] \notin float_space, 1, Len(s))
    IN  IF lo = 0 THEN <<>> ELSE SubSeq(s, lo, hi)

\* float(s) of a str: the ASCII text read for s, without the whitespace at
\* its ends, is a sign, then inf, infinity or nan in any case, or digits
\* with at most one point and an exponent; ValueError otherwise.
float_of_str(s) == float_of_stripped(s, float_strip(float_ascii(s)))

\* str(e) of the TypeError of float(v)
NotFloatable(v) ==
    <<"f","l","o","a","t","(",")"," ","a","r","g",
                           "u","m","e","n","t"," ","m","u","s","t"," ",
                           "b","e"," ","a"," ","s","t","r","i","n","g",
                           " ","o","r"," ","a"," ","r","e","a","l"," ",
                           "n","u","m","b","e","r",","," ","n","o","t"," ">>
    \o type_name(v)

\* float(leniency); a number of the model is in tenths.
py_float(v) ==
    IF v.none THEN Raise(NotFloatable(v))
    ELSE IF "num" \in DOMAIN v
         THEN Ok(decimal_float(v.num < 0, int_digits(IF v.num < 0 THEN 0 - v.num ELSE v.num),
                               Len(int_digits(IF v.num < 0 THEN 0 - v.num ELSE v.num)) - 1,
                               FALSE, 0, 0))
    ELSE IF "str" \in DOMAIN v THEN float_of_str(v.str)
    ELSE Raise(NotFloatable(v))

\* max_chars of _format_anchors
max_chars == 1400

\* str.replace("\n", " ")
newlines_to_spaces(s) == [i \in DOMAIN s |-> IF s[i] = "\n" THEN " " ELSE s[i]]

\* `for a in anchors or []`: the elements the loop visits, or the TypeError
\* of a value that cannot be iterated; a dict gives its keys and a str its
\* characters, each a str.
anchors_iterated(anchors) ==
    IF falsy(anchors) THEN Ok(<<>>)
    ELSE IF IsPyList(anchors) THEN Ok(anchors.items)
    ELSE IF IsStr(anchors) THEN Ok([i \in DOMAIN anchors.str |-> PyStr(<<anchors.str[i]>>)])
    ELSE IF IsDict(anchors)
         THEN Ok([i \in 1..Cardinality(DOMAIN anchors.dict) |-> PyStr(<<>>)])
    ELSE Raise(type_name(anchors) \o
          <<" ","o","b","j","e","c","t"," ","i","s"," ","n","o","t"," ",
            "i","t","e","r","a","b","l","e">>)

\* x or "" / x or {}
or_else(x, default) == IF falsy(x) THEN default ELSE x

\* txt[:max_chars] + "..." when len(txt) > max_chars
excerpt(txt) ==
    IF Len(txt) > max_chars THEN SubSeq(txt, 1, max_chars) \o <<".", ".", ".">> ELSE txt

\* The dict appended for the anchor d whose text is given.
formatted_anchor(d, given) ==
    IF ~IsStr(given) THEN Raise(NoAttribute(given, <<"s","t","r","i","p">>))
    ELSE Ok(PyDict([text_excerpt |-> PyStr(excerpt(newlines_to_spaces(strip(given.str)))),
                    overall |-> dict_get(d, "overall", PyNone),
                    per_criterion |-> or_else(dict_get(d, "per_criterion", PyNone),
                                              PyDict(<<>>))]))

\* The body of the loop of _format_anchors for one anchor a.
format_anchor(a) ==
    IF ~IsDict(a) THEN Raise(NoAttribute(a, <<"g","e","t">>))
    ELSE formatted_anchor(a.dict, or_else(dict_get(a.dict, "text", PyNone), PyStr(<<>>)))

\* The results of the loop body in order, first the least index of one that
\* failed or 0: the error of that one, else the list of the dicts.
first_error_or_list(out, first) ==
    IF first # 0 THEN out[first] ELSE Ok([i \in DOMAIN out |-> out[i].value])

\* The loop of _format_anchors, from the results of its body.
loop_result(out) ==
    first_error_or_list(out, FirstIn(LAMBDA i : out[i].raised, 1, Len(out)))

\* The loop of _format_anchors over the anchors visited.
format_each(visited) ==
    IF visited.raised THEN visited
    ELSE loop_result([i \in DOMAIN visited.value |-> format_anchor(visited.value[i])])

\* _format_anchors(anchors): the list of the formatted anchors, or the error
\* of the first anchor that fails.
_format_anchors(anchors) == format_each(anchors_iterated(anchors))

\* What json.loads makes of a str: the value the text encodes, or the
\* JSONDecodeError with the message msg. json is not part of the repository:
\* a reply comes with what json.loads does on it.
JsonText(value) == [none |-> FALSE, json |-> [valid |-> TRUE, value |-> value]]

NotJsonText(msg) == [none |-> FALSE, json |-> [valid |-> FALSE, msg |-> msg]]

\* json.loads(content): TypeError on a content that is no str.
json_loads(content) ==
    IF "json" \notin DOMAIN content
    THEN Raise(<<"t","h","e"," ","J","S","O","N"," ","o","b","j","e","c",
                 "t"," ","m","u","s","t"," ","b","e"," ","s","t","r",",",
                 " ","b","y","t","e","s"," ","o","r"," ","b","y","t","e",
                 "a","r","r","a","y",","," ","n","o","t"," ">>
               \o bare_type_name(content))
    ELSE IF ~content.json.valid THEN Raise(content.json.msg)
    ELSE Ok(content.json.value)

\* crit_names = [c["name"] for c in rubric_schema.get("criteria", [])]
crit_names(rubric_schema) ==
    IF ~IsDict(rubric_schema) THEN Raise(NoAttribute(rubric_schema, <<"g","e","t">>))
    ELSE LET criteria == dict_get(rubric_schema.dict, "criteria", <<>>)
         IN  IF \E i \in DOMAIN criteria : "name" \notin DOMAIN criteria[i]
             THEN Raise(NoKey(<<"n","a","m","e">>))
             ELSE Ok([i \in DOMAIN criteria |-> criteria[i]["name"]])

\* pc = data.get("per_criterion", {}) or {}
\* for n in crit_names: pc.setdefault(n, None)
per_criterion_slots(data, names) ==
    LET got == dict_get(data, "per_criterion", PyDict(<<>>))
        pc  == IF falsy(got) THEN PyDict(<<>>) ELSE got
    IN  IF names = <<>> THEN Ok(pc)
        ELSE IF ~IsDict(pc)
             THEN Raise(NoAttribute(pc, <<"s","e","t","d","e","f","a","u","l","t">>))
        ELSE Ok(PyDict([n \in DOMAIN pc.dict \cup {names[i] : i \in DOMAIN names} |->
                            IF n \in DOMAIN pc.dict THEN pc.dict[n] ELSE PyNone]))

\* "Grading failed: "
GradingFailed ==
    <<"G","r","a","d","i","n","g"," ","f","a","i","l","e","d",":"," ">>

\* The result of the except branch of grade_with_rubric.
grading_fallback(e) ==
    [overall |-> PyNone, per_criterion |-> PyDict(<<>>),
     rationales |-> [_note |-> GradingFailed \o e], confidence |-> PyStr(<<"l","o","w">>)]

\* formatted[:6]
first_six(formatted) ==
    IF formatted.raised THEN formatted
    ELSE Ok(SubSeq(formatted.value, 1, IF Len(formatted.value) < 6
                                       THEN Len(formatted.value) ELSE 6))

\* _format_anchors(anchors)[:6]
anchors_sent(anchors) == first_six(_format_anchors(anchors))

\* The statements of the try block of grade_with_rubric, in order: the first
\* that fails gives the error, else the dict returned.
grade_attempt(rubric_schema, anchors, leniency, llm) ==
    LET hint    == py_float(leniency)
        shown   == anchors_sent(anchors)
        content == chat_content(llm)
    IN  IF hint.raised THEN hint
        ELSE IF shown.raised THEN shown
        ELSE IF content.raised THEN content
        ELSE LET data == json_loads(content.value)
             IN  IF data.raised THEN data
                 ELSE LET names == crit_names(rubric_schema)
                      IN  IF names.raised THEN names
                          ELSE IF ~IsDict(data.value)
                               THEN Raise(NoAttribute(data.value, <<"g","e","t">>))
                          ELSE LET pc == per_criterion_slots(data.value.dict, names.value)
                               IN  IF pc.raised THEN pc
                                   ELSE Ok([k \in DOMAIN data.value.dict
                                                  \cup {"per_criterion", "confidence"} |->
                                             IF k = "per_criterion" THEN pc.value
                                             ELSE IF k \in DOMAIN data.value.dict
                                                  THEN data.value.dict[k]
                                                  ELSE PyStr(<<"m","e","d","i","u","m">>)])

\* grade_with_rubric without its try: an error reaches the caller.
grade_with_rubric_unguarded(rubric_schema, anchors, leniency, llm) ==
    LET graded == grade_attempt(rubric_schema, anchors, leniency, llm)
    IN  IF graded.raised THEN [called |-> TRUE, raised |-> TRUE]
        ELSE [called |-> TRUE, raised |-> FALSE, value |-> graded.value]

\* grade_with_rubric: try: ... return data
\* except Exception as e: return the fallback result.
grade_with_rubric(rubric_schema, anchors, leniency, llm) ==
    LET graded == grade_attempt(rubric_schema, anchors, leniency, llm)
    IN  [called |-> TRUE, raised |-> FALSE,
         value |-> IF graded.raised THEN grading_fallback(graded.value)
                   ELSE graded.value]

-----------------------------------------------------------------------------
(* The tables of src/src/db.py. A table is the sequence of its rows in     *)
(* insertion order; the id of a row is its position.                       *)

\* select("*").eq("user_id", user_id).eq("focus", focus).eq("active", True):
\* the ids of the rows that match. limit(1) returns any one of them.
matching_active_goals(table, user_id, focus) ==
    {i \in DOMAIN table : /\ table[i].user_id = user_id
                          /\ table[i].focus = focus
                          /\ table[i].active}

\* upsert_flow_goal, the update of lines 294-299: target, window_days and
\* active of the row whose id is goal_id.
update_flow_goal(table, goal_id, target, window_days, active) ==
    [i \in DOMAIN table |->
        IF table[i].id = goal_id
        THEN [table[i] EXCEPT !.target = target, !.window_days = window_days,
                              !.active = active]
        ELSE table[i]]

\* upsert_flow_goal, the insert of lines 302-303: the row gets the next id.
insert_flow_goal(table, user_id, focus, target, window_days, active) ==
    Append(table, [id |-> Len(table) + 1, user_id |-> user_id, focus |-> focus,
                   target |-> target, window_days |-> window_days, active |-> active])

\* active_flow_goals: the active rows of the user, newest first.
active_flow_goals(table, user_id) ==
    LET ids == {i \in DOMAIN table : table[i].user_id = user_id /\ table[i].active}
    IN  SelectSeq([k \in DOMAIN table |-> table[Len(table) + 1 - k]],
                  LAMBDA row : row.id \in ids)

\* The sessions that call db.py at the same time.
Callers == {1, 2}

\* A caller between two calls.
NoCall == [pc |-> "idle"]

\* The rows of one teacher and rubric.
versions_of(table, teacher_id, rubric_id) ==
    {i \in DOMAIN table : table[i].teacher_id = teacher_id /\ table[i].rubric_id = rubric_id}

\* _next_grader_version_number
_next_grader_version_number(table, teacher_id, rubric_id) ==
    LET rows == versions_of(table, teacher_id, rubric_id)
    IN  IF rows # {} THEN MaxOf({table[i].version : i \in rows}) + 1 ELSE 1

\* create_grader_version, the insert: the row gets the next id.
insert_grader_version(table, teacher_id, rubric_id, ver, is_active) ==
    Append(table, [id |-> Len(table) + 1, teacher_id |-> teacher_id,
                   rubric_id |-> rubric_id, version |-> ver, is_active |-> is_active])

\* set_active_grader_version, first update: is_active = False on every row
\* of the teacher and rubric.
deactivate_versions(table, teacher_id, rubric_id) ==
    [i \in DOMAIN table |->
        IF i \in versions_of(table, teacher_id, rubric_id)
        THEN [table[i] EXCEPT !.is_active = FALSE] ELSE table[i]]

\* set_active_grader_version, second update: is_active = True on the row
\* whose id is version_id, whatever its teacher and rubric.
activate_version(table, version_id) ==
    [i \in DOMAIN table |->
        IF table[i].id = version_id THEN [table[i] EXCEPT !.is_active = TRUE] ELSE table[i]]

\* get_active_grader_version: the rows limit(1) can return.
active_versions(table, teacher_id, rubric_id) ==
    {i \in versions_of(table, teacher_id, rubric_id) : table[i].is_active}

-----------------------------------------------------------------------------
(* src/src/storage.py: the profile kept in data/user_profile.json. The     *)
(* averages are the binary64 values the code computes and stores; the      *)
(* metrics are in hundredths.                                              *)

NoFile == [exists |-> FALSE]

\* load_profile: {} when there is no file
load_profile(file) == IF file.exists THEN file.profile ELSE <<>>

\* save_profile
save_profile(profile) == [exists |-> TRUE, profile |-> profile]

\* A natural number of any size is the sequence of its limbs, its digits
\* to the base 2^LimbBits, the highest first and none for 0.
LimbBits == 13

Limb == Pow(2, LimbBits)

RECURSIVE nat_limbs(_)
nat_limbs(n) == IF n = 0 THEN <<>> ELSE Append(nat_limbs(n \div Limb), n % Limb)

zero_limbs(k) == [i \in 1..k |-> 0]

\* The limbs from the one at first on.
limbs_from(a, first) == IF first = 0 THEN <<>> ELSE SubSeq(a, first, Len(a))

\* The limbs without the zeros that lead them.
normal_limbs(a) == limbs_from(a, FirstIn(LAMBDA i : a[i] # 0, 1, Len(a)))

\* The limb of a at place k, counted from the last, which is place 0.
limb_at(a, k) == IF k < Len(a) THEN a[Len(a) - k] ELSE 0

\* a + b from place k on, with the carry of the places below.
RECURSIVE limbs_sum(_, _, _, _)
limbs_sum(a, b, k, carry) ==
    IF k >= Len(a) /\ k >= Len(b) THEN nat_limbs(carry)
    ELSE Append(limbs_sum(a, b, k + 1, (limb_at(a, k) + limb_at(b, k) + carry) \div Limb),
                (limb_at(a, k) + limb_at(b, k) + carry) % Limb)

\* a - b from place k on (a >= b), with the borrow of the places below.
RECURSIVE limbs_difference(_, _, _, _)
limbs_difference(a, b, k, borrow) ==
    IF k >= Len(a) THEN <<>>
    ELSE Append(limbs_difference(a, b, k + 1,
                                 IF limb_at(a, k) - limb_at(b, k) - borrow < 0 THEN 1 ELSE 0),
                (limb_at(a, k) - limb_at(b, k) - borrow) % Limb)

\* a * c from place k on, for an int c >= 0 of at most 17 bits, with the
\* carry of the places below.
RECURSIVE limbs_times(_, _, _, _)
limbs_times(a, c, k, carry) ==
    IF k >= Len(a) THEN nat_limbs(carry)
    ELSE Append(limbs_times(a, c, k + 1, (limb_at(a, k) * c + carry) \div Limb),
                (limb_at(a, k) * c + carry) % Limb)

\* One step of the long division by c: the next limb of the quotient and
\* the remainder.
division_step(before, limb, c) ==
    [q |-> Append(before.q, (before.r * Limb + limb) \div c),
     r |-> (before.r * Limb + limb) % c]

\* The first i limbs of a divided by an int c > 0 of at most 17 bits:
\* quotient and remainder.
RECURSIVE limbs_division(_, _, _)
limbs_division(a, c, i) ==
    IF i = 0 THEN [q |-> <<>>, r |-> 0]
    ELSE division_step(limbs_division(a, c, i - 1), a[i], c)

\* a < b for two numbers without leading zeros, first the first place where
\* they differ.
limbs_less_at(a, b, first) == first # 0 /\ a[first] < b[first]

limbs_less(a, b) ==
    IF Len(a) # Len(b) THEN Len(a) < Len(b)
    ELSE limbs_less_at(a, b, FirstIn(LAMBDA i : a[i] # b[i], 1, Len(a)))

\* int.bit_length() of an int n >= 0
RECURSIVE bit_length(_)
bit_length(n) == IF n = 0 THEN 0 ELSE 1 + bit_length(n \div 2)

\* The number of bits of a number without leading zeros.
limbs_bit_length(a) ==
    IF a = <<>> THEN 0 ELSE LimbBits * (Len(a) - 1) + bit_length(a[1])

\* a * 2^s
limbs_shifted_up(a, s) ==
    IF a = <<>> THEN <<>>
    ELSE limbs_times(a, Pow(2, s % LimbBits), 0, 0) \o zero_limbs(s \div LimbBits)

\* The quotient of the first `kept` limbs of a by 2^s, and whether a is that
\* quotient times 2^s and the places of the other limbs.
limbs_cut(a, kept, division) ==
    [q |-> normal_limbs(division.q),
     exact |-> division.r = 0 /\ \A i \in (kept + 1)..Len(a) : a[i] = 0]

\* floor(a / 2^s), and whether it is a / 2^s; a has more than s bits.
limbs_shifted_down(a, s) ==
    limbs_cut(a, Len(a) - (s \div LimbBits),
              limbs_division(a, Pow(2, s % LimbBits), Len(a) - (s \div LimbBits)))

\* A number limbs * 2^exp, exact: a binary64 that is not negative, or a sum
\* or multiple of such.
dyadic(limbs, exp) == [limbs |-> normal_limbs(limbs), exp |-> exp]

\* The limbs of x in units of 2^exp, for exp <= x.exp.
limbs_in_units(x, exp) == limbs_shifted_up(x.limbs, x.exp - exp)

\* The lesser of the two powers of two.
unit_of(x, y) == IF x.exp <= y.exp THEN x.exp ELSE y.exp

\* x + y, exact
dyadic_plus(x, y) ==
    dyadic(limbs_sum(limbs_in_units(x, unit_of(x, y)), limbs_in_units(y, unit_of(x, y)), 0, 0),
           unit_of(x, y))

\* x * c for an int c >= 0, exact
dyadic_times(x, c) == dyadic(limbs_times(x.limbs, c, 0, 0), x.exp)

\* x * 2^k, exact
dyadic_shifted(x, k) == [limbs |-> x.limbs, exp |-> x.exp + k]

\* x < y
dyadic_less(x, y) ==
    limbs_less(limbs_in_units(x, unit_of(x, y)), limbs_in_units(y, unit_of(x, y)))

\* |x - y|, exact
dyadic_distance(x, y) ==
    IF dyadic_less(x, y)
    THEN dyadic(limbs_difference(limbs_in_units(y, unit_of(x, y)),
                                 limbs_in_units(x, unit_of(x, y)), 0, 0), unit_of(x, y))
    ELSE dyadic(limbs_difference(limbs_in_units(x, unit_of(x, y)),
                                 limbs_in_units(y, unit_of(x, y)), 0, 0), unit_of(x, y))

\* The bits of the significand of a binary64.
Binary64Bits == 53

\* A binary64 that is not negative is the dyadic of its significand of
\* Binary64Bits bits and its power of two; 0.0 has no limbs and exp 0.

\* The significand, one added to it when the rounding goes up; a
\* significand of all ones becomes the next power of two.
binary64_up(significand, exp, up) ==
    IF ~up THEN [limbs |-> significand, exp |-> exp]
    ELSE IF limbs_bit_length(limbs_sum(significand, <<1>>, 0, 0)) > Binary64Bits
    THEN [limbs |-> nat_limbs(Pow(2, (Binary64Bits - 1) % LimbBits))
                    \o zero_limbs((Binary64Bits - 1) \div LimbBits),
          exp |-> exp + 1]
    ELSE [limbs |-> limbs_sum(significand, <<1>>, 0, 0), exp |-> exp]

\* The binary64 of a significand followed by one more bit, the guard, and
\* by more that is not 0 when sticky: up when the guard is set and either
\* more follows or the significand is odd (a tie goes to the even one).
binary64_guarded(guarded, exp, sticky) ==
    binary64_up(normal_limbs(limbs_division(guarded, 2, Len(guarded)).q), exp + 1,
                /\ limb_at(guarded, 0) % 2 = 1
                /\ sticky \/ (limb_at(guarded, 0) \div 2) % 2 = 1)

\* The significand and the guard cut from the limbs.
binary64_cut(cut, exp, inexact) == binary64_guarded(cut.q, exp, inexact \/ ~cut.exact)

\* The binary64 nearest to a number that is limbs * 2^exp, or lies between
\* it and the next multiple of 2^exp when inexact. The limbs have no
\* leading zeros; an inexact number comes with more than Binary64Bits
\* bits. The numbers here are in the normal range of binary64.
binary64(limbs, exp, inexact) ==
    IF limbs = <<>> THEN [limbs |-> <<>>, exp |-> 0]
    ELSE IF limbs_bit_length(limbs) <= Binary64Bits
    THEN [limbs |-> limbs_shifted_up(limbs, Binary64Bits - limbs_bit_length(limbs)),
          exp |-> exp - (Binary64Bits - limbs_bit_length(limbs))]
    ELSE binary64_cut(limbs_shifted_down(limbs, limbs_bit_length(limbs) - Binary64Bits - 1),
                      exp + limbs_bit_length(limbs) - Binary64Bits - 1, inexact)

\* The binary64 of a quotient and remainder of a division of limbs * 2^exp.
binary64_quotient(division, exp) ==
    binary64(normal_limbs(division.q), exp, division.r # 0)

\* x / c for an int c > 0 of at most 17 bits, rounded; the dividend is
\* taken with six limbs more, so that the quotient has more bits than a
\* binary64 keeps.
binary64_over_int(x, c) ==
    binary64_quotient(limbs_division(x.limbs \o zero_limbs(6), c, Len(x.limbs) + 6),
                      x.exp - 6 * LimbBits)

\* float * int
binary64_times_int(x, c) == binary64(dyadic_times(x, c).limbs, x.exp, FALSE)

\* float + float
binary64_plus(x, y) == binary64(dyadic_plus(x, y).limbs, unit_of(x, y), FALSE)

\* The float of the decimal p / q that round() returns, for ints p >= 0 and
\* q > 0: the binary64 nearest to it.
binary64_of_ratio(p, q) == binary64_over_int(dyadic(nat_limbs(p), 0), q)

\* The running average with the old average weighted by count.
running_average_weighting_count(old, count, new) ==
    binary64_over_int(binary64_plus(binary64_times_int(old, count), new), count)

\* (old * (count - 1) + new) / count in float arithmetic: the product, the
\* sum and the quotient are each rounded to binary64.
running_average(old, count, new) ==
    binary64_over_int(binary64_plus(binary64_times_int(old, count - 1), new), count)

\* list(set(words)): the elements of words once each, in an order that
\* depends on the hash seed of the run.
list_of_set(words) ==
    LET elements == {words[i] : i \in DOMAIN words}
    IN  {q \in [1..Cardinality(elements) -> elements] :
             {q[i] : i \in DOMAIN q} = elements}

\* update_profile: the profiles the call can save and return.
update_profile(file, new_metrics) ==
    LET loaded  == load_profile(file)
        profile == IF loaded = <<>>
                   THEN [count |-> 0, avg_sentence_length |-> binary64(<<>>, 0, FALSE),
                         vocab_richness |-> binary64(<<>>, 0, FALSE),
                         frequent_words |-> <<>>]
                   ELSE loaded
        count   == profile.count + 1
    IN  {[count |-> count,
          avg_sentence_length |->
              running_average(profile.avg_sentence_length, count,
                              binary64_of_ratio(new_metrics.sentence_length_avg,
                                                Pow(10, StyleDecimals))),
          vocab_richness |->
              running_average(profile.vocab_richness, count,
                              binary64_of_ratio(new_metrics.vocab_richness,
                                                Pow(10, StyleDecimals))),
          frequent_words |-> merged] :
             merged \in list_of_set(profile.frequent_words \o new_metrics.frequent_words)}

-----------------------------------------------------------------------------
(* src/web/app.py, the FlowState section. Streamlit runs the script from   *)
(* top to bottom on every interaction; a button returns True in the run    *)
(* its click has started.                                                  *)

\* The text area before its first rendering.
NoWidget == [shown |-> FALSE, content |-> <<>>, value |-> <<>>]

\* st.text_area(value=value, key="fs_response_text"): what the call returns.
\* A text area that the last run did not show is new and returns value. One
\* that was shown returns what the browser holds, or, in the releases of
\* Streamlit that build a widget's identity from its parameters, value when
\* value is not what the last run passed.
text_area(value, w) ==
    IF ~w.shown THEN {value}
    ELSE {w.content, IF w.value = value THEN w.content ELSE value}

\* insert_flow_attempt: the row stored.
insert_flow_attempt(table, session_id, response_text, start_time, end_time) ==
    Append(table, [id |-> Len(table) + 1, session_id |-> session_id,
                   response_text |-> response_text,
                   start_time |-> start_time, end_time |-> end_time])

\* Lines 304-390, the body of the Submit branch. outcome tells which request
\* to the database fails, if any: the insert of the attempt, or a later one
\* (insert_flow_metrics, user_metric_baseline, insert_flow_feedback,
\* random_flow_prompt), which is also what attempt["id"] at line 329 does
\* when the insert has stored the row and returned no data; an exception
\* ends the run.
submit_handler(ss, attempts, clock, outcome) ==
    IF outcome = "insert_failed" THEN [session_state |-> ss, flow_attempts |-> attempts]
    ELSE LET stored == insert_flow_attempt(attempts, ss.fs_session_id.num,
                                           strip(ss.fs_response),
                                           ss.fs_started_at.num, clock)
         IN  IF outcome = "failed_later"
             THEN [session_state |-> ss, flow_attempts |-> stored]
             ELSE [session_state |-> [ss EXCEPT !.fs_response = <<>>,
                                               !.fs_started_at = PyNone],
                   flow_attempts |-> stored]

-----------------------------------------------------------------------------
(* Inputs                                                                  *)

\* All sequences over S of length at most n.
SeqsUpTo(S, n) == UNION {[1..k -> S] : k \in 0..n}

\* sep.join(words)
Join(words, sep) ==
    FlatMap(LAMBDA i : IF i = 1 THEN words[i] ELSE sep \o words[i], 1, Len(words))

\* Documents written character by character.
MaxLen == 3

Alphabet == {"a", "A", "b", "'", " ", "\n", ".", "!", ",", "U+00E9"}

CharTexts == SeqsUpTo(Alphabet, MaxLen)

\* Documents of whole words separated by one space.
MaxWords == 4

Vocabulary == { <<"b">>, <<"B">>, <<"c">>, <<"t","h","e">>, <<"T","h","e">> }

WordTexts == {Join(ws, <<" ">>) : ws \in SeqsUpTo(Vocabulary, MaxWords)}

\* Documents of many distinct words: "The", then the first n words of
\* b c d e f g h, then the last m of these again.
MaxDistinct == 7

DistinctWords == << <<"b">>, <<"c">>, <<"d">>, <<"e">>, <<"f">>, <<"g">>, <<"h">> >>

DistinctText(n, m) ==
    Join(<< <<"T","h","e">> >> \o SubSeq(DistinctWords, 1, n)
         \o SubSeq(DistinctWords, n - m + 1, n), <<" ">>)

DistinctTexts ==
    UNION {{DistinctText(n, m) : m \in 0..n} :
           n \in {k \in 0..MaxDistinct : k <= Len(DistinctWords)}}

\* Long documents: one word written n times.
MaxRepeat == 201

RepeatText(n) == [i \in 1..(2 * n) |-> IF i % 2 = 1 THEN "a" ELSE " "]

LongTexts == {RepeatText(n) : n \in (MaxRepeat - 2)..MaxRepeat}

\* "Hello world! This is a test."
HelloWorld ==
    <<"H","e","l","l","o"," ","w","o","r","l","d","!"," ",
      "T","h","i","s"," ","i","s"," ","a"," ","t","e","s","t",".">>

\* "Wow! This is like a dream, isn't it?"
WowDream ==
    <<"W","o","w","!"," ","T","h","i","s"," ","i","s"," ","l","i","k","e"," ",
      "a"," ","d","r","e","a","m",","," ","i","s","n","'","t"," ","i","t","?">>

StyleTexts == CharTexts \cup WordTexts \cup DistinctTexts \cup LongTexts \cup {HelloWorld}

\* Documents of FlowState bursts: phrases written one after the other.
MaxPhrases == 4

Phrases ==
    { <<"l","i","k","e"," ">>, <<"W","o","w","!"," ">>, <<"m","a","y","b","e",","," ">>,
      <<"w","a","s"," ">>, <<"e","n","d","e","d","."," ">>,
      <<"m","y","s","t","e","r","y"," ">> }

Concat(parts) == FlatMap(LAMBDA i : parts[i], 1, Len(parts))

PhraseTexts == {Concat(ps) : ps \in SeqsUpTo(Phrases, MaxPhrases)}

\* Bursts of one word written n times: "go go go ... ".
MaxFlowRepeat == 160

FlowRepeatText(n) == [i \in 1..(3 * n) |-> <<"g", "o", " ">>[((i - 1) % 3) + 1]]

FlowRepeatTexts == {FlowRepeatText(n) : n \in {10, 32, MaxFlowRepeat - 1, MaxFlowRepeat}}

\* Two-word markers written with one space, two spaces, a tab or a newline
\* between the words.
MarkerPairs ==
    { << <<"a","s">>, <<"i","f">> >>,
      << <<"k","i","n","d">>, <<"o","f">> >>,
      << <<"w","a","s">>, <<"e","n","d","e","d">> >> }

Separators == { <<" ">>, <<" ", " ">>, <<"\t">>, <<"\n">> }

SpacedTexts == {Join(pair, sep) : pair \in MarkerPairs, sep \in Separators}

\* Texts of punctuation marks: every stretch of the line , . (em dash) - : ; ! ? ( )
PunctuationLine == <<",", ".", EmDash, "-", ":", ";", "!", "?", "(", ")">>

MarkTexts ==
    {SubSeq(PunctuationLine, i, j) : i \in DOMAIN PunctuationLine, j \in DOMAIN PunctuationLine}

\* Bursts for the clarity score: a sentence of n words "go", then h hedges
\* and p passive cues, closed by a full stop, alone or before a second, short
\* sentence.
MaxSentenceWords == 41

SentenceLengths == {1, 17, 18, 19, 29, 39, MaxSentenceWords - 1, MaxSentenceWords}

Repeated(phrase, n) == FlatMap(LAMBDA i : phrase, 1, n)

ClarityText(n, h, p, second) ==
    FlowRepeatText(n) \o Repeated(<<"m","a","y","b","e"," ">>, h)
    \o Repeated(<<"w","a","s"," ","e","n","d","e","d"," ">>, p)
    \o (IF second THEN <<".", " ", "G", "o", "!">> ELSE <<".">>)

ClarityTexts ==
    {ClarityText(n, h, p, second) :
        n \in SentenceLengths, h \in {0, 1, 4, 5}, p \in {0, 1, 3, 4},
        second \in BOOLEAN}

\* Bursts with long words: n times "go" and then r times "mystery"; a word of
\* six letters; and 20 words of 12 forms, three of them long.
Mystery == <<"m","y","s","t","e","r","y"," ">>

RareTexts ==
    {FlowRepeatText(n) \o Repeated(Mystery, r) : n \in {5, 6, 17, 19}, r \in {1, 3}}
    \cup { <<"s","i","l","v","e","r">>,
           Repeated(Mystery, 3)
           \o Join([i \in 1..11 |-> <<DistinctWords[((i - 1) % 7) + 1][1]>>
                                     \o (IF i > 7 THEN <<"x">> ELSE <<>>)], <<" ">>)
           \o Repeated(<<" ", "b">>, 6) }

FlowTexts ==
    CharTexts \cup PhraseTexts \cup FlowRepeatTexts \cup SpacedTexts \cup MarkTexts
    \cup RareTexts \cup {HelloWorld, WowDream}

\* Goal lists: None, and every list of distinct goal names.
GoalNames == {"playfulness", "clarity", "creativity"}

GoalLists ==
    {g \in SeqsUpTo(GoalNames, Cardinality(GoalNames)) :
        \A i, j \in DOMAIN g : i # j => g[i] # g[j]}

GoalArgs == {PyNone} \cup {PyList(g) : g \in GoalLists}

\* Elapsed times, in seconds.
MaxElapsed == 60

ElapsedValues == {0 - 1, 0, 1, MaxElapsed \div 2, MaxElapsed - 1, MaxElapsed}

\* FlowMetrics dicts handed to compute_flow_composite.
MaxWordCount == 80

MetricSamples ==
    [called : {TRUE}, raised : {FALSE},
     word_count : {0, 1, MaxWordCount \div 2, MaxWordCount},
     vocab_type_count : {0},
     vocab_ttr : {0, 3333, 6000},
     repetition_rate : {0, 2000, 5000},
     playfulness_score : {0, 10000},
     clarity_score : {1875, 8000},
     creativity_score : {1, 3000}]

-----------------------------------------------------------------------------
(* The engine as a state machine: a caller holds a document, an elapsed    *)
(* time and a goal list, and calls the three functions.                    *)

\* main.py line 41, app.py line 734: metrics = analyze_text(text)
AnalyzeText ==
    /\ style' = analyze_text(text)
    /\ UNCHANGED <<text, metrics, elapsed_seconds, goal_focus, composite>>
    /\ UNCHANGED app_vars

\* app.py line 324: m = analyze_flow_text(st.session_state.fs_response)
AnalyzeFlowText ==
    /\ metrics' \in analyze_flow_text(text)
    /\ UNCHANGED <<text, style, elapsed_seconds, goal_focus, composite>>
    /\ UNCHANGED app_vars

\* app.py lines 325-327: composite = compute_flow_composite(elapsed, m, goals)
ComputeFlowComposite ==
    /\ metrics.called
    /\ ~metrics.raised
    /\ composite' \in compute_flow_composite(elapsed_seconds, metrics, goal_focus)
    /\ UNCHANGED <<text, style, metrics, elapsed_seconds, goal_focus>>
    /\ UNCHANGED app_vars

\* Nothing but the engine has run.
GoalsIdle ==
    /\ flow_goals = <<>>
    /\ goal_calls = [caller \in Callers |-> NoCall]
    /\ goal_call = NoResult

ProfileIdle ==
    /\ profile_file = NoFile
    /\ submitted = <<>>

GradersIdle ==
    /\ grader_versions = <<>>
    /\ grader_calls = [caller \in Callers |-> NoCall]
    /\ grader_done = NoResult

\* app.py lines 138-151: the defaults of the session state; the page has
\* been shown once, without a session.
FlowStateIdle ==
    /\ session_state = [fs_session_id |-> PyNone, fs_started_at |-> PyNone,
                        fs_response |-> <<>>]
    /\ widget = NoWidget
    /\ rendered = {}
    /\ flow_sessions = 0
    /\ flow_attempts = <<>>
    /\ now = 0
    /\ ui_log = [event |-> "load", completed |-> TRUE, begun |-> FALSE,
                 unbegun_attempt |-> FALSE]

AppIdle ==
    /\ assistant = NoResult
    /\ GoalsIdle
    /\ ProfileIdle
    /\ GradersIdle
    /\ FlowStateIdle

\* The engine is not used.
EngineIdle ==
    /\ text = <<>>
    /\ style = NoResult
    /\ metrics = NoResult
    /\ elapsed_seconds = 0
    /\ goal_focus = PyNone
    /\ composite = NoResult

\* analyze_text on its own.
InitStyle ==
    /\ text \in StyleTexts
    /\ style = NoResult
    /\ metrics = NoResult
    /\ elapsed_seconds = 0
    /\ goal_focus = PyNone
    /\ composite = NoResult
    /\ AppIdle

SpecStyle == InitStyle /\ [][AnalyzeText]_vars

\* analyze_flow_text on its own.
InitFlow ==
    /\ text \in FlowTexts
    /\ style = NoResult
    /\ metrics = NoResult
    /\ elapsed_seconds = 0
    /\ goal_focus = PyNone
    /\ composite = NoResult
    /\ AppIdle

SpecFlow == InitFlow /\ [][AnalyzeFlowText]_vars

\* analyze_flow_text on bursts of long sentences.
InitClarity ==
    /\ text \in ClarityTexts
    /\ style = NoResult
    /\ metrics = NoResult
    /\ elapsed_seconds = 0
    /\ goal_focus = PyNone
    /\ composite = NoResult
    /\ AppIdle

SpecClarity == InitClarity /\ [][AnalyzeFlowText]_vars

\* compute_flow_composite on its own, on any FlowMetrics dict.
InitComposite ==
    /\ text = <<>>
    /\ style = NoResult
    /\ metrics \in MetricSamples
    /\ elapsed_seconds \in ElapsedValues
    /\ goal_focus \in GoalArgs
    /\ composite = NoResult
    /\ AppIdle

SpecComposite == InitComposite /\ [][ComputeFlowComposite]_vars

\* The three functions on one document.
Init ==
    /\ text \in CharTexts \cup {HelloWorld}
    /\ style = NoResult
    /\ metrics = NoResult
    /\ elapsed_seconds \in {0, MaxElapsed}
    /\ goal_focus \in {PyNone, PyList(<<>>), PyList(<<"clarity", "playfulness">>)}
    /\ composite = NoResult
    /\ AppIdle

Next == AnalyzeText \/ AnalyzeFlowText \/ ComputeFlowComposite

Spec == Init /\ [][Next]_vars

-----------------------------------------------------------------------------
(* The LLM helpers as a state machine: each call meets one outcome of      *)
(* openai.ChatCompletion.create.                                           *)

\* Errors of the call: a quota error, a network error, an error with an
\* empty message.
LlmFailures ==
    {LlmRaises("RateLimitError", <<"q","u","o","t","a">>),
     LlmRaises("APIConnectionError", <<"r","e","s","e","t">>),
     LlmRaises("Timeout", <<>>),
     LlmRaises("ValueError", <<"4","2","9"," ",".">>)}

\* Replies to a feedback prompt.
FeedbackReplies ==
    {LlmMalformed("choices"), LlmMalformed("first"), LlmMalformed("message"),
     LlmMalformed("content"), LlmReturns(PyNone), LlmReturns(PyStr(<<>>)),
     LlmReturns(PyStr(<<" ">>)), LlmReturns(PyStr(<<" ","O","k",".","\n">>))}

\* json.loads("Sorry."), json.loads('{"overall": 4} Done.')
ExpectingValue ==
    <<"E","x","p","e","c","t","i","n","g"," ","v","a","l","u","e",":"," ",
      "l","i","n","e"," ","1"," ","c","o","l","u","m","n"," ","1"," ","(",
      "c","h","a","r"," ","0",")">>

ExtraData ==
    <<"E","x","t","r","a"," ","d","a","t","a",":"," ","l","i","n","e"," ",
      "1"," ","c","o","l","u","m","n"," ","1","6"," ","(","c","h","a","r",
      " ","1","5",")">>

\* Replies to a grading prompt.
GraderReplies ==
    {LlmMalformed("choices"), LlmMalformed("first"), LlmReturns(PyNone),
     LlmReturns(NotJsonText(ExpectingValue)), LlmReturns(NotJsonText(ExtraData)),
     LlmReturns(JsonText(PyList(<<>>))),
     LlmReturns(JsonText(PyDict(<<>>))),
     LlmReturns(JsonText(PyDict([overall |-> PyNum(4)]))),
     LlmReturns(JsonText(PyDict([overall |-> PyNum(4), per_criterion |-> PyNone]))),
     LlmReturns(JsonText(PyDict([overall |-> PyNum(4), per_criterion |-> PyNum(3)]))),
     LlmReturns(JsonText(PyDict([overall |-> PyNum(4), per_criterion |-> PyList(<<>>)]))),
     LlmReturns(JsonText(PyDict([overall |-> PyNum(4),
                                 per_criterion |-> PyDict([Thesis |-> PyNum(5)]),
                                 confidence |-> PyStr(<<"h","i","g","h">>)])))}

\* Rubric schemas: None, no criteria, one and two criteria, a criterion
\* without a name.
Rubrics ==
    {PyNone, PyDict([title |-> "Essay"]),
     PyDict([criteria |-> <<>>]),
     PyDict([criteria |-> <<[name |-> "Thesis"]>>]),
     PyDict([criteria |-> <<[name |-> "Thesis"], [name |-> "Evidence"]>>]),
     PyDict([criteria |-> <<[name |-> "Thesis"], [weight |-> "1"]>>])}

\* Anchor lists: None, one graded sample with its text, a sample whose text
\* is no str, an element that is no dict.
AnchorLists ==
    {PyNone,
     PyList(<<PyDict([text |-> PyStr(<<" ","A","\n","b"," ">>), overall |-> PyNum(4)])>>),
     PyList(<<PyDict([text |-> PyNum(5)])>>),
     PyList(<<PyNum(4)>>)}

\* leniency: 0.5 in tenths, None, the strs "0.5" and "abc", and "0.5" after
\* U+001F, which str.strip() strips and float() does not.
Leniencies ==
    {PyNum(5), PyNone, PyStr(<<"0",".","5">>), PyStr(<<"a","b","c">>),
     PyStr(<<"U+001F","0",".","5">>)}

\* The calls of the helpers a behaviour makes.
MaxLlmCalls == 1

\* The calls made so far.
LlmCallsMade == IF assistant.called THEN assistant.calls ELSE 0

\* app.py line 745: feedback = get_ai_feedback(text, profile_summary)
GetAiFeedback ==
    /\ LlmCallsMade < MaxLlmCalls
    /\ \E llm \in LlmFailures \cup FeedbackReplies :
           assistant' = [called |-> TRUE, calls |-> LlmCallsMade + 1,
                         fn |-> "get_ai_feedback", llm |-> llm,
                         result |-> get_ai_feedback(llm)]
    /\ UNCHANGED <<engine_vars, goal_vars, profile_vars, grader_vars, flow_state_vars>>

\* app.py line 356: fb = get_flow_feedback(...)
GetFlowFeedback ==
    /\ LlmCallsMade < MaxLlmCalls
    /\ \E llm \in LlmFailures \cup FeedbackReplies :
           assistant' = [called |-> TRUE, calls |-> LlmCallsMade + 1,
                         fn |-> "get_flow_feedback", llm |-> llm,
                         result |-> get_flow_feedback(llm)]
    /\ UNCHANGED <<engine_vars, goal_vars, profile_vars, grader_vars, flow_state_vars>>

\* app.py line 618: pred = grade_with_rubric(essay_text, rubric_schema, ...)
GradeWithRubric ==
    /\ LlmCallsMade < MaxLlmCalls
    /\ \E llm \in LlmFailures \cup GraderReplies, rubric_schema \in Rubrics,
          anchors \in AnchorLists, leniency \in Leniencies :
           assistant' = [called |-> TRUE, calls |-> LlmCallsMade + 1,
                         fn |-> "grade_with_rubric", llm |-> llm,
                         rubric_schema |-> rubric_schema, anchors |-> anchors,
                         leniency |-> leniency,
                         result |-> grade_with_rubric(rubric_schema, anchors, leniency, llm)]
    /\ UNCHANGED <<engine_vars, goal_vars, profile_vars, grader_vars, flow_state_vars>>

InitAssistant ==
    /\ EngineIdle
    /\ AppIdle

NextAssistant == GetAiFeedback \/ GetFlowFeedback \/ GradeWithRubric

SpecAssistant == InitAssistant /\ [][NextAssistant]_vars

-----------------------------------------------------------------------------
(* The goals table as a state machine: two sessions call upsert_flow_goal; *)
(* every request to the database is a step of its own, and a request can   *)
(* fail, which ends the call with the error.                               *)

MaxGoalRows == 2

GoalUsers == {"u1", "u2"}

GoalFocuses == {"clarity", "creativity"}

\* target in tenths
GoalTargets == {6, 8}

GoalWindows == {14}

\* The calls that are about to insert.
PendingGoalInserts == {caller \in Callers : goal_calls[caller].pc = "insert"}

\* db.py lines 281-292: the select of an active row of (user_id, focus);
\* `if existing` sends the call to the update of the row returned or to the
\* insert. A call that will insert starts while the table and the inserts
\* pending hold fewer than MaxGoalRows rows.
UpsertSelect(caller) ==
    /\ goal_calls[caller].pc = "idle"
    /\ \E user_id \in GoalUsers, focus \in GoalFocuses, target \in GoalTargets,
          window_days \in GoalWindows, active \in BOOLEAN :
           \A existing \in {matching_active_goals(flow_goals, user_id, focus)} :
               IF existing # {}
               THEN \E goal_id \in existing :
                        goal_calls' =
                            [goal_calls EXCEPT ![caller] =
                                [pc |-> "update", user_id |-> user_id, focus |-> focus,
                                 target |-> target, window_days |-> window_days,
                                 active |-> active, goal_id |-> goal_id]]
               ELSE /\ Len(flow_goals) + Cardinality(PendingGoalInserts) < MaxGoalRows
                    /\ goal_calls' =
                            [goal_calls EXCEPT ![caller] =
                                [pc |-> "insert", user_id |-> user_id, focus |-> focus,
                                 target |-> target, window_days |-> window_days,
                                 active |-> active, goal_id |-> 0]]
    /\ goal_call' = NoResult
    /\ UNCHANGED <<flow_goals, engine_vars, assistant, profile_vars, grader_vars,
                   flow_state_vars>>

\* db.py lines 293-300: the update by id; the call returns.
UpsertUpdate(caller) ==
    /\ goal_calls[caller].pc = "update"
    /\ \A call \in {goal_calls[caller]} :
           /\ flow_goals' = update_flow_goal(flow_goals, call.goal_id, call.target,
                                             call.window_days, call.active)
           /\ goal_call' = [called |-> TRUE, user_id |-> call.user_id,
                            focus |-> call.focus, target |-> call.target,
                            window_days |-> call.window_days, active |-> call.active,
                            goal_id |-> call.goal_id, before |-> flow_goals]
    /\ goal_calls' = [goal_calls EXCEPT ![caller] = NoCall]
    /\ UNCHANGED <<engine_vars, assistant, profile_vars, grader_vars, flow_state_vars>>

\* db.py lines 301-304: the insert; the call returns.
UpsertInsert(caller) ==
    /\ goal_calls[caller].pc = "insert"
    /\ \A call \in {goal_calls[caller]} :
           /\ flow_goals' = insert_flow_goal(flow_goals, call.user_id, call.focus,
                                             call.target, call.window_days, call.active)
           /\ goal_call' = [called |-> TRUE, user_id |-> call.user_id,
                            focus |-> call.focus, target |-> call.target,
                            window_days |-> call.window_days, active |-> call.active,
                            goal_id |-> 0, before |-> flow_goals]
    /\ goal_calls' = [goal_calls EXCEPT ![caller] = NoCall]
    /\ UNCHANGED <<engine_vars, assistant, profile_vars, grader_vars, flow_state_vars>>

\* execute() of the update or of the insert raises: the call ends with the
\* error and the table is as it was. (A select that raises ends a call that
\* has done nothing.)
UpsertWriteFails(caller) ==
    /\ goal_calls[caller].pc \in {"update", "insert"}
    /\ goal_calls' = [goal_calls EXCEPT ![caller] = NoCall]
    /\ goal_call' = NoResult
    /\ UNCHANGED <<flow_goals, engine_vars, assistant, profile_vars, grader_vars,
                   flow_state_vars>>

InitGoals ==
    /\ EngineIdle
    /\ AppIdle

NextGoals ==
    \E caller \in Callers :
        \/ UpsertSelect(caller)
        \/ UpsertUpdate(caller)
        \/ UpsertInsert(caller)
        \/ UpsertWriteFails(caller)

SpecGoalTable == InitGoals /\ [][NextGoals]_vars

-----------------------------------------------------------------------------
(* The profile as a state machine: the chat loop of main.py hands the      *)
(* metrics of each input to update_profile.                                *)

MaxProfileCalls == 3

\* Metrics as analyze_text rounds them (hundredths): 0.0, 4.5 and 12.0 words
\* per sentence, richness 0.33 and 1.0.
ProfileMetrics ==
    [sentence_length_avg : {0, 450, 1200},
     vocab_richness : {33, 100},
     frequent_words : {<<>>, <<"sea", "salt", "sea">>}]

\* main.py line 44: profile = update_profile(metrics)
UpdateProfile ==
    /\ Len(submitted) < MaxProfileCalls
    /\ \E new_metrics \in ProfileMetrics :
           /\ \E profile \in update_profile(profile_file, new_metrics) :
                  profile_file' = save_profile(profile)
           /\ submitted' = Append(submitted, new_metrics)
    /\ UNCHANGED <<engine_vars, assistant, goal_vars, grader_vars, flow_state_vars>>

InitProfile ==
    /\ EngineIdle
    /\ AppIdle

SpecProfile == InitProfile /\ [][UpdateProfile]_vars

-----------------------------------------------------------------------------
(* The grader versions as a state machine: two sessions call               *)
(* create_grader_version and set_active_grader_version; every request to   *)
(* the database is a step of its own.                                      *)

MaxGraderRows == 3

Teachers == {"t1"}

GraderRubrics == {"r1", "r2"}

\* create_grader_version, ver = version or _next_grader_version_number(...):
\* the select of the highest version.
CreateSelectVersion(caller) ==
    /\ grader_calls[caller].pc = "idle"
    /\ Len(grader_versions) < MaxGraderRows
    /\ \E teacher_id \in Teachers, rubric_id \in GraderRubrics, is_active \in BOOLEAN,
          version \in {PyNone, PyNum(0), PyNum(1)} :
           grader_calls' =
               [grader_calls EXCEPT ![caller] =
                   [pc |-> "insert", teacher_id |-> teacher_id, rubric_id |-> rubric_id,
                    is_active |-> is_active,
                    ver |-> IF falsy(version)
                            THEN _next_grader_version_number(grader_versions,
                                                             teacher_id, rubric_id)
                            ELSE version.num]]
    /\ grader_done' = NoResult
    /\ UNCHANGED <<grader_versions, engine_vars, assistant, goal_vars, profile_vars, flow_state_vars>>

\* create_grader_version, the insert of the payload.
CreateInsert(caller) ==
    /\ grader_calls[caller].pc = "insert"
    /\ grader_versions' =
           insert_grader_version(grader_versions, grader_calls[caller].teacher_id,
                                 grader_calls[caller].rubric_id, grader_calls[caller].ver,
                                 grader_calls[caller].is_active)
    /\ grader_calls' = [grader_calls EXCEPT ![caller] = NoCall]
    /\ grader_done' = NoResult
    /\ UNCHANGED <<engine_vars, assistant, goal_vars, profile_vars, flow_state_vars>>

\* The version_id of a call is any id: that of a row of the table, that of
\* a row to come, or 0, the id of no row.
VersionIds == 0..MaxGraderRows

\* set_active_grader_version, the first update.
SetActiveDeactivate(caller) ==
    /\ grader_calls[caller].pc = "idle"
    /\ \E teacher_id \in Teachers, rubric_id \in GraderRubrics, version_id \in VersionIds :
           /\ grader_versions' = deactivate_versions(grader_versions, teacher_id, rubric_id)
           /\ grader_calls' =
                  [grader_calls EXCEPT ![caller] =
                      [pc |-> "activate", teacher_id |-> teacher_id,
                       rubric_id |-> rubric_id, version_id |-> version_id]]
    /\ grader_done' = NoResult
    /\ UNCHANGED <<engine_vars, assistant, goal_vars, profile_vars, flow_state_vars>>

\* set_active_grader_version, the second update; the call returns.
SetActiveActivate(caller) ==
    /\ grader_calls[caller].pc = "activate"
    /\ grader_versions' = activate_version(grader_versions, grader_calls[caller].version_id)
    /\ grader_done' = [called |-> TRUE, teacher_id |-> grader_calls[caller].teacher_id,
                       rubric_id |-> grader_calls[caller].rubric_id,
                       version_id |-> grader_calls[caller].version_id]
    /\ grader_calls' = [grader_calls EXCEPT ![caller] = NoCall]
    /\ UNCHANGED <<engine_vars, assistant, goal_vars, profile_vars, flow_state_vars>>

\* execute() of the insert or of the second update raises: the call ends
\* with the error and the table is as the requests before left it. (A first
\* request that raises ends a call that has done nothing.)
GraderRequestFails(caller) ==
    /\ grader_calls[caller].pc \in {"insert", "activate"}
    /\ grader_calls' = [grader_calls EXCEPT ![caller] = NoCall]
    /\ grader_done' = NoResult
    /\ UNCHANGED <<grader_versions, engine_vars, assistant, goal_vars, profile_vars,
                   flow_state_vars>>

InitGraders ==
    /\ EngineIdle
    /\ AppIdle

NextGraders ==
    \E caller \in Callers :
        \/ CreateSelectVersion(caller)
        \/ CreateInsert(caller)
        \/ SetActiveDeactivate(caller)
        \/ SetActiveActivate(caller)
        \/ GraderRequestFails(caller)

SpecGraders == InitGraders /\ [][NextGraders]_vars

-----------------------------------------------------------------------------
(* The FlowState section as a state machine: every action is one run of    *)
(* the script, started by one interaction of the user.                     *)

MaxSessions == 2

MaxAttempts == 2

MaxClock == 2

\* What the user can have in the text area.
Drafts == {<<>>, <<"a">>, <<" ", "b">>}

SubmitOutcomes == {"stored", "insert_failed", "failed_later"}

\* Lines 283-390: the part of the script below the form, run on the session
\* state ss with the text area w; clicked is the button whose click started
\* the run, outcome what the database does if the Submit branch runs.
RunFlowState(ss, w, clicked, outcome, event) ==
    IF ss.fs_session_id.none
    THEN /\ session_state' = ss
         /\ widget' = NoWidget
         /\ rendered' = {}
         /\ flow_attempts' = flow_attempts
         /\ ui_log' = [ui_log EXCEPT !.event = event, !.completed = TRUE]
    ELSE LET begin_shown == ss.fs_started_at.none
             begun == begin_shown /\ clicked = "begin"
             ss2 == IF begun THEN [ss EXCEPT !.fs_started_at = PyNum(now)] ELSE ss
         IN  \E returned \in text_area(ss2.fs_response, w) :
               LET ss3 == [ss2 EXCEPT !.fs_response = returned]
                   submit_shown == ~ss3.fs_started_at.none
                   submitting == submit_shown /\ clicked = "submit"
                   after == IF submitting
                            THEN submit_handler(ss3, flow_attempts, now, outcome)
                            ELSE [session_state |-> ss3, flow_attempts |-> flow_attempts]
                   storing == Len(after.flow_attempts) > Len(flow_attempts)
               IN  /\ session_state' = after.session_state
                   /\ flow_attempts' = after.flow_attempts
                   /\ widget' = [shown |-> TRUE, content |-> returned,
                                 value |-> ss2.fs_response]
                   /\ rendered' = (IF begin_shown THEN {"begin"} ELSE {})
                                      \cup (IF submit_shown THEN {"submit"} ELSE {})
                   /\ ui_log' =
                          [event |-> IF submitting THEN "submit" ELSE event,
                           completed |-> ~submitting \/ outcome = "stored",
                           begun |-> IF storing THEN FALSE ELSE ui_log.begun \/ begun,
                           unbegun_attempt |->
                               ui_log.unbegun_attempt \/ (storing /\ ~(ui_log.begun \/ begun))]

\* What the requests of the "Start burst" branch do: the insert of the
\* session raises; it stores the row and returns no data, so that
\* create_flow_session returns None and session["id"] raises at line 267;
\* the request for a prompt of lines 270-274 raises; or all of them succeed.
StartOutcomes == {"create_failed", "no_row", "prompt_failed", "ready"}

\* Lines 252-281, the "Start burst" branch, on the session state ss with
\* sessions rows in flow_sessions: the session state and the number of rows
\* it leaves. An exception ends the run.
start_burst_handler(ss, sessions, outcome) ==
    IF outcome = "create_failed" THEN [session_state |-> ss, flow_sessions |-> sessions]
    ELSE IF outcome = "no_row"
         THEN [session_state |-> ss, flow_sessions |-> sessions + 1]
    ELSE LET ss2 == [ss EXCEPT !.fs_session_id = PyNum(sessions + 1)]
         IN  IF outcome = "prompt_failed"
             THEN [session_state |-> ss2, flow_sessions |-> sessions + 1]
             ELSE [session_state |-> [ss2 EXCEPT !.fs_response = <<>>,
                                                !.fs_started_at = PyNone],
                   flow_sessions |-> sessions + 1]

\* Lines 250-390 on a click of "Start burst". A branch that raises ends the
\* run before anything below the form is shown.
StartBurst ==
    /\ flow_sessions < MaxSessions
    /\ \E outcome \in StartOutcomes :
           \A after \in {start_burst_handler(session_state, flow_sessions, outcome)} :
               /\ flow_sessions' = after.flow_sessions
               /\ IF outcome = "ready"
                  THEN RunFlowState(after.session_state, widget, "start_burst", "stored",
                                    "start_burst")
                  ELSE /\ session_state' = after.session_state
                       /\ widget' = NoWidget
                       /\ rendered' = {}
                       /\ ui_log' = [ui_log EXCEPT !.event = "start_burst",
                                                   !.completed = FALSE]
                       /\ UNCHANGED flow_attempts
    /\ UNCHANGED <<now, engine_vars, assistant, goal_vars, profile_vars, grader_vars>>

\* A run started by a widget of another section of the page: no button of
\* this section is clicked.
Rerun ==
    /\ RunFlowState(session_state, widget, "none", "stored", "rerun")
    /\ UNCHANGED <<flow_sessions, now, engine_vars, assistant, goal_vars, profile_vars,
                   grader_vars>>

\* A click of "Begin writing", which the last run has shown.
BeginWriting ==
    /\ "begin" \in rendered
    /\ RunFlowState(session_state, widget, "begin", "stored", "begin")
    /\ UNCHANGED <<flow_sessions, now, engine_vars, assistant, goal_vars, profile_vars,
                   grader_vars>>

\* The user changes the text in the text area.
EditText ==
    /\ widget.shown
    /\ \E content \in Drafts \ {widget.content} :
           RunFlowState(session_state, [widget EXCEPT !.content = content],
                        "none", "stored", "edit")
    /\ UNCHANGED <<flow_sessions, now, engine_vars, assistant, goal_vars, profile_vars,
                   grader_vars>>

\* A click of "Submit", which the last run has shown.
Submit ==
    /\ "submit" \in rendered
    /\ Len(flow_attempts) < MaxAttempts
    /\ \E outcome \in SubmitOutcomes :
           RunFlowState(session_state, widget, "submit", outcome, "rerun")
    /\ UNCHANGED <<flow_sessions, now, engine_vars, assistant, goal_vars, profile_vars,
                   grader_vars>>

\* Time passes.
Tick ==
    /\ now < MaxClock
    /\ now' = now + 1
    /\ UNCHANGED <<session_state, widget, rendered, flow_sessions, flow_attempts, ui_log,
                   engine_vars, assistant, goal_vars, profile_vars, grader_vars>>

InitFlowState ==
    /\ EngineIdle
    /\ AppIdle

NextFlowState == StartBurst \/ Rerun \/ BeginWriting \/ EditText \/ Submit \/ Tick

SpecFlowState == InitFlowState /\ [][NextFlowState]_vars

-----------------------------------------------------------------------------
(* Properties                                                              *)

\* The word tokens and the sentences analyze_text works on.
StyleTokens == fallback_tokens(clean_text(text))

StyleSentences == split_sentences(clean_text(text))

\* The non-stopword tokens, as written, and their occurrences.
KeptTokens == SelectSeq(StyleTokens, LAMBDA w : lower(w) \notin _BASIC_STOPWORDS)

Occurrences(w) == Cardinality({i \in DOMAIN KeptTokens : KeptTokens[i] = w})

FirstSeen(w) == MinOf({i \in DOMAIN KeptTokens : KeptTokens[i] = w})

StyleReturned == style.called /\ ~style.raised

FlowReturned == metrics.called /\ ~metrics.raised

CompositeReturned == composite.called /\ ~composite.raised

FlowScoreKeys ==
    {"vocab_ttr", "repetition_rate", "playfulness_score", "clarity_score",
     "creativity_score"}

\* C1: for the empty string analyze_flow_text returns the all-zero record:
\* word_count, vocab_type_count, vocab_ttr, repetition_rate and the three
\* scores are all 0, and nothing is raised.
C1_EmptyTextAllZero ==
    (metrics.called /\ text = <<>>) =>
        /\ ~metrics.raised
        /\ metrics.word_count = 0
        /\ metrics.vocab_type_count = 0
        /\ \A k \in FlowScoreKeys : metrics[k] = 0

\* C2: vocab_ttr, repetition_rate, playfulness_score, clarity_score and
\* creativity_score of analyze_flow_text lie in [0, 1] for every text.
C2_FlowScoresInUnitInterval ==
    metrics.called =>
        /\ ~metrics.raised
        /\ \A k \in FlowScoreKeys : 0 <= metrics[k] /\ metrics[k] <= Pow(10, FlowDecimals)

\* A text whose playfulness terms add up to more than 1 (two marks, a
\* figurative marker, an interjection, ttr above 0.6) and is clamped to 1,
\* with a hedge lowering clarity and a repeated word.
C2_Witness ==
    /\ FlowReturned
    /\ metrics.playfulness_score = Pow(10, FlowDecimals)
    /\ punct_variety(text) >= 2
    /\ figurative_hits(lower(text)) >= 1
    /\ interjection_hits(lower(text)) >= 1
    /\ metrics.clarity_score < Pow(10, FlowDecimals)
    /\ metrics.repetition_rate > 0

\* The composite of the specification, in hundredths, as a fraction over
\* SpecDen: 100 + 10 clamp(wpm/40) + 20 clamp(ttr/0.6) + 20 clamp(goal_average)
\* - 10 clamp(2 repetition_rate), with wpm = 60 word_count / elapsed, each
\* clamp written out by cases.
SpecGoals == or_empty_list(goal_focus)

SpecGoalScore(g) ==
    CASE g = "playfulness" -> metrics.playfulness_score
      [] g = "clarity"     -> metrics.clarity_score
      [] g = "creativity"  -> metrics.creativity_score

SpecGoalSum == SumOver(LAMBDA i : SpecGoalScore(SpecGoals[i]), 1, Len(SpecGoals))

SpecDen ==
    15 * (IF elapsed_seconds > 0 THEN elapsed_seconds ELSE 1)
       * (IF SpecGoals = <<>> THEN 1 ELSE Len(SpecGoals))

SpecWpmPart ==
    IF elapsed_seconds <= 0 THEN 0
    ELSE IF 60 * metrics.word_count >= 40 * elapsed_seconds THEN 1000 * SpecDen
    ELSE (1500 * metrics.word_count * SpecDen) \div elapsed_seconds

SpecTtrPart ==
    IF metrics.vocab_ttr >= 6000 THEN 2000 * SpecDen
    ELSE (metrics.vocab_ttr * SpecDen) \div 3

SpecGoalPart ==
    IF SpecGoals = <<>> THEN 0
    ELSE IF SpecGoalSum >= 10000 * Len(SpecGoals) THEN 2000 * SpecDen
    ELSE (SpecGoalSum * SpecDen) \div (5 * Len(SpecGoals))

SpecRepetitionPart ==
    IF 2 * metrics.repetition_rate >= 10000 THEN 1000 * SpecDen
    ELSE (metrics.repetition_rate * SpecDen) \div 5

Abs(x) == IF x < 0 THEN 0 - x ELSE x

\* v hundredths is num / SpecDen hundredths rounded to a whole number.
IsRounded(v, num) == 2 * Abs(v * SpecDen - num) <= SpecDen

\* C3: compute_flow_composite returns 100 + 10 clamp(wpm/40) + 20 clamp(ttr/0.6)
\* + 20 clamp(goal_average) - 10 clamp(2 repetition_rate) rounded to two
\* decimals, wpm = 60 word_count / elapsed; elapsed 60, word_count 40, ttr 0.6,
\* goals [clarity], clarity_score 0.8, repetition_rate 0.2 give 142.0.
C3_CompositeFormula ==
    composite.called =>
        /\ ~composite.raised
        /\ IsRounded(composite.value,
                     10000 * SpecDen + SpecWpmPart + SpecTtrPart + SpecGoalPart
                     - SpecRepetitionPart)
        /\ ( /\ elapsed_seconds = 60
             /\ metrics.word_count = 40
             /\ metrics.vocab_ttr = 6000
             /\ metrics.clarity_score = 8000
             /\ metrics.repetition_rate = 2000
             /\ goal_focus = PyList(<<"clarity">>) ) => composite.value = 14200

\* The example of the specification has been computed.
C3_Witness ==
    /\ CompositeReturned
    /\ elapsed_seconds = 60
    /\ metrics.word_count = 40
    /\ metrics.vocab_ttr = 6000
    /\ metrics.clarity_score = 8000
    /\ metrics.repetition_rate = 2000
    /\ goal_focus = PyList(<<"clarity">>)
    /\ composite.value = 14200

\* C4 as stated: vocab_richness lies in [0, 1] and is 0 exactly when the text
\* has no word tokens, whatever the number of tokens.
C4_ZeroOnlyWithoutTokens ==
    style.called =>
        /\ ~style.raised
        /\ 0 <= style.vocab_richness /\ style.vocab_richness <= 100
        /\ (style.vocab_richness = 0) <=> (StyleTokens = <<>>)

\* C4 amended: vocab_richness lies in [0, 1]; it is 0 when the text has no
\* word tokens, and for a text with tokens it is 0 exactly when the tokens
\* number more than 200 times the distinct lowercase forms (the ratio rounds
\* to 0.00), so it is positive for every text of 1 to 200 tokens.
C4_ZeroWhenRoundedToZero ==
    style.called =>
        /\ ~style.raised
        /\ 0 <= style.vocab_richness /\ style.vocab_richness <= 100
        /\ StyleTokens = <<>> => style.vocab_richness = 0
        /\ StyleTokens # <<>> =>
             ((style.vocab_richness = 0)
                <=> (Len(StyleTokens) > 200 * lower_types(StyleTokens)))

\* The ratio 1/200 is the smallest that still rounds to 0.01.
C4_Witness ==
    /\ StyleReturned
    /\ Len(StyleTokens) = 200 * lower_types(StyleTokens)
    /\ StyleTokens # <<>>
    /\ style.vocab_richness = 1

\* C5: frequent_words has at most 5 elements and none of them, compared
\* case-insensitively, is a stopword.
C5_FrequentWordsBounded ==
    style.called =>
        /\ ~style.raised
        /\ Len(style.frequent_words) <= 5
        /\ \A i \in DOMAIN style.frequent_words :
               lower(style.frequent_words[i]) \notin _BASIC_STOPWORDS

\* More than five distinct non-stopwords and a capitalised stopword in the
\* text, five words returned.
C5_Witness ==
    /\ StyleReturned
    /\ Len(style.frequent_words) = 5
    /\ Cardinality({KeptTokens[i] : i \in DOMAIN KeptTokens}) > 5
    /\ \E i \in DOMAIN StyleTokens :
           /\ StyleTokens[i] # lower(StyleTokens[i])
           /\ lower(StyleTokens[i]) \in _BASIC_STOPWORDS

\* C6: frequent_words is computed over lowercased tokens: every word returned
\* is in lowercase and occurrences that differ only in case are one word.
C6_FrequentWordsLowercased ==
    style.called =>
        /\ ~style.raised
        /\ \A i \in DOMAIN style.frequent_words :
               style.frequent_words[i] = lower(style.frequent_words[i])
        /\ \A i, j \in DOMAIN style.frequent_words :
               i # j => lower(style.frequent_words[i]) # lower(style.frequent_words[j])

\* C7: frequent_words is in descending order of occurrence count among the
\* non-stopword tokens, words of equal count in order of first appearance.
C7_FrequentWordsOrdered ==
    style.called =>
        /\ ~style.raised
        /\ \A i \in DOMAIN style.frequent_words :
               Occurrences(style.frequent_words[i]) >= 1
        /\ \A i, j \in DOMAIN style.frequent_words :
               i < j =>
                 LET a == style.frequent_words[i]
                     b == style.frequent_words[j]
                 IN  \/ Occurrences(a) > Occurrences(b)
                     \/ Occurrences(a) = Occurrences(b) /\ FirstSeen(a) < FirstSeen(b)

\* A more frequent word placed ahead of a word that appears earlier, and two
\* words of equal count.
C7_Witness ==
    /\ StyleReturned
    /\ \E i, j \in DOMAIN style.frequent_words :
           /\ i < j
           /\ Occurrences(style.frequent_words[i]) > Occurrences(style.frequent_words[j])
           /\ FirstSeen(style.frequent_words[i]) > FirstSeen(style.frequent_words[j])
    /\ \E i, j \in DOMAIN style.frequent_words :
           /\ i < j
           /\ Occurrences(style.frequent_words[i]) = Occurrences(style.frequent_words[j])

\* x is a list.
IsList(x) == DOMAIN x = 1..Len(x)

\* C8: analyze_text, analyze_flow_text and compute_flow_composite never raise
\* on a string (non-ASCII included), an elapsed time >= 0 and a set of the
\* three goal names; analyze_text returns a record with sentence_length_avg,
\* sentence_length_var, vocab_richness, frequent_words (a list) and
\* punctuation_use.
C8_NeverRaises ==
    /\ style.called =>
         /\ ~style.raised
         /\ {"sentence_length_avg", "sentence_length_var", "vocab_richness",
             "frequent_words", "punctuation_use"} \subseteq DOMAIN style
         /\ IsList(style.frequent_words)
    /\ metrics.called => ~metrics.raised
    /\ composite.called => ~composite.raised

\* The three functions have returned on a text with a non-ASCII character and
\* a sentence without word tokens, with elapsed time 0.
C8_Witness ==
    /\ StyleReturned
    /\ FlowReturned
    /\ CompositeReturned
    /\ \E i \in DOMAIN text : text[i] \in NonAsciiLetters
    /\ \E i \in DOMAIN text : IsTerminal(text[i])
    /\ \E i \in DOMAIN StyleSentences : fallback_tokens(StyleSentences[i]) = <<>>
    /\ elapsed_seconds = 0

\* The text is empty or made of whitespace only.
IsBlank == \A i \in DOMAIN text : text[i] \in Whitespace

\* C9: an empty or whitespace-only document has no tokens and no sentences,
\* and analyze_text returns sentence_length_avg 0.0, sentence_length_var 0,
\* vocab_richness 0.0, frequent_words [] and punctuation_use {} without raising.
C9_BlankDocument ==
    (style.called /\ IsBlank) =>
        /\ ~style.raised
        /\ StyleTokens = <<>>
        /\ StyleSentences = <<>>
        /\ style.sentence_length_avg = 0
        /\ style.sentence_length_var = 0
        /\ style.vocab_richness = 0
        /\ style.frequent_words = <<>>
        /\ DOMAIN style.punctuation_use = {}

\* analyze_text has returned on a text of several whitespace characters.
C9_Witness ==
    /\ StyleReturned
    /\ IsBlank
    /\ Len(text) >= 2
    /\ \E i \in DOMAIN text : text[i] = "\n"

\* C10: with elapsed_seconds <= 0 the words-per-minute term contributes 0
\* whatever the word_count, and nothing is raised.
C10_NoRateSignal ==
    (composite.called /\ elapsed_seconds <= 0) =>
        /\ ~composite.raised
        /\ IsRounded(composite.value,
                     10000 * SpecDen + SpecTtrPart + SpecGoalPart - SpecRepetitionPart)

\* The composite of a dict with words, at elapsed time 0 and below.
C10_Witness ==
    /\ CompositeReturned
    /\ elapsed_seconds = 0
    /\ metrics.word_count > 0
    /\ metrics.vocab_ttr > 0

\* The float score (before round) of a composite call, and its wpm.
ExactScore(e, m, g) ==
    composite_score(words_per_minute(e, m.word_count).value,
                    FromUnits(m.vocab_ttr),
                    goal_avg(goal_scores(m, g)).value,
                    FromUnits(m.repetition_rate))

WpmOf(e, m) == words_per_minute(e, m.word_count).value

\* Other word counts and repetition rates the same call could have been given.
OtherWordCounts == {0, 1, MaxWordCount \div 2, MaxWordCount}

OtherRepetitionRates == {0, 2000, 4999, 5000, 7500, 10000}

\* Every value the call (e, m, goal_focus) can return is at least
\* (up = TRUE) or at most (up = FALSE) the value returned in this state.  Two
\* calls whose float scores are equal run the same float operations from the
\* clamp on and return the same value, so they are compared only when their
\* scores differ.
ComparesWith(e, m, up) ==
    \A r \in compute_flow_composite(e, m, goal_focus) :
        /\ ~r.raised
        /\ \/ ExactScore(e, m, goal_focus)
                = ExactScore(elapsed_seconds, metrics, goal_focus)
           \/ IF up THEN r.value >= composite.value ELSE r.value <= composite.value

\* C11: with the other inputs fixed the composite does not decrease when wpm
\* grows, is the same for every wpm of 40 or more, and does not increase when
\* repetition_rate grows.
C11_CompositeMonotone ==
    composite.called =>
        /\ ~composite.raised
        /\ \A e \in ElapsedValues, w \in OtherWordCounts :
             LET m == [metrics EXCEPT !.word_count = w]
             IN  RatLe(WpmOf(elapsed_seconds, metrics), WpmOf(e, m)) =>
                   /\ ComparesWith(e, m, TRUE)
                   /\ RatLe(<<40, 1>>, WpmOf(elapsed_seconds, metrics)) =>
                        ExactScore(e, m, goal_focus)
                          = ExactScore(elapsed_seconds, metrics, goal_focus)
        /\ \A r \in OtherRepetitionRates :
             metrics.repetition_rate <= r =>
                 ComparesWith(elapsed_seconds,
                              [metrics EXCEPT !.repetition_rate = r], FALSE)

\* A composite below both caps: a faster call scores strictly more, a call
\* with more repetition strictly less, and two calls at 40 wpm and above
\* score the same.
C11_Witness ==
    /\ CompositeReturned
    /\ elapsed_seconds = MaxElapsed
    /\ metrics.word_count = 1
    /\ metrics.repetition_rate = 2000
    /\ \E w \in OtherWordCounts :
           \A r \in compute_flow_composite(elapsed_seconds,
                                           [metrics EXCEPT !.word_count = w],
                                           goal_focus) :
               r.value > composite.value
    /\ \E rr \in OtherRepetitionRates :
           \A r \in compute_flow_composite(elapsed_seconds,
                                           [metrics EXCEPT !.repetition_rate = rr],
                                           goal_focus) :
               r.value < composite.value
    /\ \E e \in ElapsedValues, w \in OtherWordCounts :
           /\ RatLe(<<40, 1>>, WpmOf(e, [metrics EXCEPT !.word_count = w]))
           /\ ~RatLe(WpmOf(e, [metrics EXCEPT !.word_count = w]), <<80, 1>>)

\* The mean of the selected goals' scores as the specification words it: each
\* goal name stands for its own score field; 0 when no goal is selected.
SpecGoalMean ==
    IF SpecGoals = <<>> THEN <<0, 1>>
    ELSE Rat(SpecGoalSum, Len(SpecGoals) * Pow(10, FlowDecimals))

\* C12: goal_average is the arithmetic mean of the <goal>_score values of the
\* selected goals and 0.0 when the goal list is empty or absent; the composite
\* returned is the score without goals plus 20 clamp(goal_average), rounded.
C12_GoalAverageIsMean ==
    composite.called =>
        /\ ~composite.raised
        /\ goal_avg(goal_scores(metrics, goal_focus)) = Ok(SpecGoalMean)
        /\ (goal_focus = PyNone \/ goal_focus = PyList(<<>>)) =>
               goal_avg(goal_scores(metrics, goal_focus)) = Ok(<<0, 1>>)
        /\ composite.value \in
               round_outcomes(
                   RatAdd(ExactScore(elapsed_seconds, metrics, PyList(<<>>)),
                          RatMul(<<20, 1>>, RatMin(<<1, 1>>, SpecGoalMean))),
                   CompositeDecimals)

\* Two goals of different scores selected: the mean lies strictly between
\* them and the composite has been returned.
C12_Witness ==
    /\ CompositeReturned
    /\ Len(SpecGoals) = 2
    /\ SpecGoalScore(SpecGoals[1]) < SpecGoalScore(SpecGoals[2])
    /\ RatLe(SpecGoalMean, FromUnits(SpecGoalScore(SpecGoals[2])))
    /\ SpecGoalMean # FromUnits(SpecGoalScore(SpecGoals[2]))
    /\ SpecGoalMean # FromUnits(SpecGoalScore(SpecGoals[1]))
    /\ SpecGoalMean = Rat(SpecGoalScore(SpecGoals[1]) + SpecGoalScore(SpecGoals[2]),
                          2 * Pow(10, FlowDecimals))

\* The word tokens analyze_flow_text works on.
FlowTokens == tokenize_alpha(text)

\* The number of token forms that differ when case is ignored.
FlowTypes == Cardinality({lower(FlowTokens[i]) : i \in DOMAIN FlowTokens})

\* v units of 10^-d is the fraction p / q rounded to d decimals.
IsNearest(v, p, q, d) == 2 * Abs(v * q - p * Pow(10, d)) <= q

\* p / q lies exactly half way between two decimals of d places.
IsHalfWay(p, q, d) ==
    /\ (2 * Pow(10, d) * p) % q = 0
    /\ ((2 * Pow(10, d) * p) \div q) % 2 = 1

\* C13 as stated: for a text with a word token vocab_ttr is vocab_type_count /
\* word_count (to the four decimals of the record), types counted
\* case-insensitively, and repetition_rate is 1 - vocab_ttr; one word written
\* 10 times gives 0.1 and 0.9.
C13_RepetitionIsOneMinusTtr ==
    (metrics.called /\ FlowTokens # <<>>) =>
        /\ ~metrics.raised
        /\ metrics.word_count = Len(FlowTokens)
        /\ metrics.vocab_type_count = FlowTypes
        /\ IsNearest(metrics.vocab_ttr, metrics.vocab_type_count, metrics.word_count,
                     FlowDecimals)
        /\ metrics.repetition_rate = Pow(10, FlowDecimals) - metrics.vocab_ttr
        /\ text = FlowRepeatText(10) =>
               metrics.vocab_ttr = 1000 /\ metrics.repetition_rate = 9000

\* C13 amended: vocab_ttr is vocab_type_count / word_count and repetition_rate
\* is 1 - vocab_type_count / word_count, each rounded to four decimals;
\* repetition_rate is 1 - vocab_ttr unless the ratio lies exactly half way
\* between two four-decimal values, where the two differ from it by at most
\* 0.0001; one word written 10 times gives 0.1 and 0.9.
C13_BothRoundedFromRatio ==
    (metrics.called /\ FlowTokens # <<>>) =>
        /\ ~metrics.raised
        /\ metrics.word_count = Len(FlowTokens)
        /\ metrics.vocab_type_count = FlowTypes
        /\ IsNearest(metrics.vocab_ttr, metrics.vocab_type_count, metrics.word_count,
                     FlowDecimals)
        /\ IsNearest(metrics.repetition_rate,
                     metrics.word_count - metrics.vocab_type_count, metrics.word_count,
                     FlowDecimals)
        /\ Abs(metrics.repetition_rate + metrics.vocab_ttr - Pow(10, FlowDecimals)) <= 1
        /\ ~IsHalfWay(metrics.vocab_type_count, metrics.word_count, FlowDecimals)
               => metrics.repetition_rate = Pow(10, FlowDecimals) - metrics.vocab_ttr
        /\ text = FlowRepeatText(10) =>
               metrics.vocab_ttr = 1000 /\ metrics.repetition_rate = 9000

\* A ratio half way between two decimals where the two rounded values do
\* add up to 1: one word written 32 times, 0.0312 and 0.9688.
C13_Witness ==
    /\ FlowReturned
    /\ metrics.word_count = 32
    /\ metrics.vocab_type_count = 1
    /\ metrics.vocab_ttr = 312
    /\ metrics.repetition_rate = 9688

\* The maximal runs of ASCII letters and apostrophes of the text, as pairs of
\* first and last position, and those among them that contain a letter.
TokenCharRuns ==
    {<<i, j>> \in (DOMAIN text) \X (DOMAIN text) :
        /\ i <= j
        /\ \A k \in i..j : IsTokenChar(text[k])
        /\ i = 1 \/ ~IsTokenChar(text[i - 1])
        /\ j = Len(text) \/ ~IsTokenChar(text[j + 1])}

LetterRuns == {r \in TokenCharRuns : \E k \in r[1]..r[2] : text[k] \in AsciiLetters}

\* C14: every word token is a maximal run of ASCII letters and apostrophes
\* that contains a letter; a run of apostrophes alone is not a token and is
\* not counted in word_count.
C14_TokensHaveALetter ==
    metrics.called =>
        /\ ~metrics.raised
        /\ \A i \in DOMAIN FlowTokens :
               /\ \E r \in TokenCharRuns : FlowTokens[i] = SubSeq(text, r[1], r[2])
               /\ \E k \in DOMAIN FlowTokens[i] : FlowTokens[i][k] \in AsciiLetters
        /\ metrics.word_count = Cardinality(LetterRuns)

\* The fragments of s between terminal marks that are not blank: the maximal
\* runs of characters other than . ! ? with a character that is not
\* whitespace, as pairs of first and last position.
FragmentRuns(s) ==
    {<<i, j>> \in (DOMAIN s) \X (DOMAIN s) :
        /\ i <= j
        /\ \A k \in i..j : ~IsTerminal(s[k])
        /\ i = 1 \/ IsTerminal(s[i - 1])
        /\ j = Len(s) \/ IsTerminal(s[j + 1])
        /\ \E k \in i..j : s[k] \notin Whitespace}

\* The fragment r of s without the whitespace at its two ends.
Trimmed(s, r) ==
    LET inked == {k \in r[1]..r[2] : s[k] \notin Whitespace}
    IN  SubSeq(s, MinOf(inked), MaxOf(inked))

\* sents is what the specification's sentence splitting makes of s.
IsSentenceSplit(s, sents) ==
    /\ Len(sents) = Cardinality(FragmentRuns(s))
    /\ \A r \in FragmentRuns(s) :
           sents[Cardinality({q \in FragmentRuns(s) : q[1] <= r[1]})] = Trimmed(s, r)
    /\ \A i \in DOMAIN sents :
           /\ sents[i] # <<>>
           /\ \A k \in DOMAIN sents[i] : ~IsTerminal(sents[i][k])
           /\ sents[i][1] \notin Whitespace
           /\ sents[i][Len(sents[i])] \notin Whitespace
    /\ \A r \in FragmentRuns(s) :
           r[2] = Len(s) => sents[Len(sents)] = Trimmed(s, r)

\* The sentences analyze_flow_text works on (it splits the text as given).
FlowSentences == split_sentences(text)

\* C15: the sentences of analyze_text and of analyze_flow_text are the
\* fragments between the maximal runs of . ! ?, each trimmed, the empty ones
\* dropped, in text order: each is non-empty and without terminal mark, and
\* a last fragment without terminal mark is a sentence if it is not blank.
C15_SentenceSplitting ==
    /\ style.called =>
         /\ ~style.raised
         /\ IsSentenceSplit(clean_text(text), StyleSentences)
    /\ metrics.called =>
         /\ ~metrics.raised
         /\ IsSentenceSplit(text, FlowSentences)

\* Both analyzers have run on a text that opens with a terminal mark and
\* ends with a padded sentence without terminal mark, which is kept, trimmed.
C15_Witness ==
    /\ StyleReturned
    /\ FlowReturned
    /\ Len(text) >= 3
    /\ IsTerminal(text[1])
    /\ text[2] \in Whitespace
    /\ ~IsTerminal(text[Len(text)])
    /\ text[Len(text)] \notin Whitespace
    /\ Len(FlowSentences) = 1
    /\ Len(FlowSentences[1]) < Len(text) - 1
    /\ StyleSentences = FlowSentences

\* C16: whitespace normalization comes before everything else: analyze_text
\* and analyze_flow_text return for a text what they return for the text with
\* every run of whitespace collapsed to one space and its ends trimmed.
C16_NormalizedTextSameResult ==
    /\ style.called => style = analyze_text(clean_text(text))
    /\ metrics.called => metrics \in analyze_flow_text(clean_text(text))

\* The number of words of s: the maximal runs of ASCII letters and apostrophes
\* that contain a letter (punctuation, the apostrophe on its own included, is
\* not a word).
WordCountOf(s) ==
    Cardinality({i \in DOMAIN s :
        /\ IsTokenChar(s[i])
        /\ i = 1 \/ ~IsTokenChar(s[i - 1])
        /\ \E j \in i..Len(s) :
               /\ s[j] \in AsciiLetters
               /\ \A k \in i..j : IsTokenChar(s[k])})

\* The words of all the sentences of analyze_text together.
StyleSentenceWords ==
    SumOver(LAMBDA i : WordCountOf(StyleSentences[i]), 1, Len(StyleSentences))

\* C17: sentence_length_avg is the mean of the sentences' word counts,
\* punctuation not counted, rounded to two decimals, and 0.0 without
\* sentences; "Hello world! This is a test." has sentences of 2 and 4 words
\* and sentence_length_avg 3.0.
C17_SentenceLengthAvgIsMean ==
    style.called =>
        /\ ~style.raised
        /\ StyleSentences = <<>> => style.sentence_length_avg = 0
        /\ StyleSentences # <<>> =>
               IsNearest(style.sentence_length_avg, StyleSentenceWords,
                         Len(StyleSentences), StyleDecimals)
        /\ text = HelloWorld =>
               /\ Len(StyleSentences) = 2
               /\ WordCountOf(StyleSentences[1]) = 2
               /\ WordCountOf(StyleSentences[2]) = 4
               /\ style.sentence_length_avg = 300

\* The word counts of the sentences of analyze_text.
StyleSentenceCounts == {WordCountOf(StyleSentences[i]) : i \in DOMAIN StyleSentences}

\* C18: sentence_length_var is the greatest per-sentence token count minus
\* the least; it is never negative and is 0 for a text of no sentence or of
\* one sentence.
C18_SentenceLengthVarIsRange ==
    style.called =>
        /\ ~style.raised
        /\ style.sentence_length_var >= 0
        /\ Len(StyleSentences) <= 1 => style.sentence_length_var = 0
        /\ StyleSentences # <<>> =>
               style.sentence_length_var
                   = MaxOf(StyleSentenceCounts) - MinOf(StyleSentenceCounts)

\* The sum of the values of the mapping f over the keys S.
RECURSIVE SumValues(_, _)
SumValues(f, S) ==
    IF S = {} THEN 0
    ELSE LET c == CHOOSE x \in S : TRUE
         IN  f[c] + SumValues(f, S \ {c})

\* The positions of the text that hold an ASCII punctuation character.
PunctuationPositions == {i \in DOMAIN text : text[i] \in string_punctuation}

\* C19: punctuation_use maps each ASCII punctuation character of the text to
\* its number of occurrences: the keys are punctuation characters, a character
\* that does not occur is not a key, every value is at least 1 and the
\* values add up to the number of punctuation characters of the text.
C19_PunctuationUseCounts ==
    style.called =>
        /\ ~style.raised
        /\ DOMAIN style.punctuation_use =
               {text[i] : i \in PunctuationPositions}
        /\ DOMAIN style.punctuation_use \subseteq string_punctuation
        /\ \A c \in DOMAIN style.punctuation_use :
               /\ style.punctuation_use[c] >= 1
               /\ style.punctuation_use[c]
                      = Cardinality({i \in DOMAIN text : text[i] = c})
        /\ SumValues(style.punctuation_use, DOMAIN style.punctuation_use)
               = Cardinality(PunctuationPositions)

\* A text with a mark written twice, apart, and a character that is not
\* punctuation.
C19_Witness ==
    /\ StyleReturned
    /\ \E c \in DOMAIN style.punctuation_use : style.punctuation_use[c] >= 2
    /\ Cardinality(PunctuationPositions) < Len(text)
    /\ text[1] \in string_punctuation
    /\ text[Len(text)] \in string_punctuation

\* The marks of the text among the ten of the list , . (em dash) - : ; ! ? ( )
TenMarks == {",", ".", "U+2014", "-", ":", ";", "!", "?", "(", ")"}

MarksOfText == {text[i] : i \in DOMAIN text} \cap TenMarks

\* C20 as stated: the punctuation variety counts the distinct characters of
\* the text among nine marks, so before the cap it is never more than 9.
C20_VarietyAtMostNine ==
    metrics.called =>
        /\ ~metrics.raised
        /\ punct_variety(text) <= 9

\* C20 amended: the punctuation variety counts the distinct characters of the
\* text among ten marks, , . (em dash) - : ; ! ? ( ), so before the cap it is
\* never more than 10; a text without word tokens has playfulness_score
\* 0.15 for each of its marks, up to six.
C20_VarietyAtMostTen ==
    metrics.called =>
        /\ ~metrics.raised
        /\ punct_variety(text) = Cardinality(MarksOfText)
        /\ punct_variety(text) <= 10
        /\ FlowTokens = <<>> =>
               metrics.playfulness_score
                   = 1500 * (IF Cardinality(MarksOfText) < 6
                             THEN Cardinality(MarksOfText) ELSE 6)

\* The text of all ten marks has been analyzed: variety 10, capped at six.
C20_Witness ==
    /\ FlowReturned
    /\ punct_variety(text) = 10
    /\ metrics.playfulness_score = 9000

\* The places of the lowercased text where one of the words stands as a whole
\* word: the word is written there and neither end touches a letter, a digit
\* or an underscore.
WholeWordPlaces(words) ==
    LET low == lower(text)
    IN  {i \in DOMAIN low :
            \E k \in DOMAIN words :
                /\ LiteralAt(low, i, words[k])
                /\ WordBoundary(low, i)
                /\ WordBoundary(low, i + Len(words[k]))}

FigurativeCount == Cardinality(WholeWordPlaces(FigurativeMarkers))

InterjectionCount == Cardinality(WholeWordPlaces(Interjections))

\* The score formulas are fractions over PerWord: hundredths, for each word
\* of the record (for one word when the record has none).
WordsOrOne == IF metrics.word_count = 0 THEN 1 ELSE metrics.word_count

PerWord == 100 * WordsOrOne

\* c clamp(ttr / 0.6) over PerWord, for c hundredths (a multiple of 6) and
\* ttr = vocab_type_count / word_count of the record, 0 without words.
TtrPart(c) ==
    IF metrics.word_count = 0 THEN 0
    ELSE IF 10 * metrics.vocab_type_count >= 6 * metrics.word_count
         THEN c * metrics.word_count
         ELSE (c \div 6) * 10 * metrics.vocab_type_count

\* 0.15 min(variety, 6) + 0.2 figurative + 0.1 interjections
\* + 0.6 clamp(ttr / 0.6), over PerWord.
PlayfulnessSum ==
    (15 * (IF Cardinality(MarksOfText) < 6 THEN Cardinality(MarksOfText) ELSE 6)
     + 20 * FigurativeCount + 10 * InterjectionCount) * WordsOrOne
    + TtrPart(60)

\* C21: playfulness_score is clamp(0.15 min(punctuation variety, 6) + 0.2 (whole
\* word occurrences of like, as if, as though) + 0.1 (whole-word occurrences of
\* hey, wow, ah, oh, hmm, ugh, ha) + 0.6 clamp(ttr / 0.6)) rounded to four decimals,
\* so a text with an interjection, a figurative marker or a listed mark has a
\* nonzero playfulness_score.
C21_PlayfulnessFormula ==
    metrics.called =>
        /\ ~metrics.raised
        /\ IsNearest(metrics.playfulness_score,
                     IF PlayfulnessSum > PerWord THEN PerWord ELSE PlayfulnessSum,
                     PerWord, FlowDecimals)
        /\ (FigurativeCount > 0 \/ InterjectionCount > 0 \/ MarksOfText # {}) =>
               metrics.playfulness_score > 0
        /\ text = WowDream =>
               /\ FigurativeCount = 1
               /\ InterjectionCount = 1
               /\ MarksOfText = {"!", ",", "?"}
               /\ metrics.playfulness_score > 0

\* A figurative marker of two words in a text whose sum stays below the
\* clamp, so every term shows in the score.
C21_Witness ==
    /\ FlowReturned
    /\ \E i \in WholeWordPlaces(FigurativeMarkers) :
           LiteralAt(lower(text), i, <<"a","s"," ","i","f">>)
    /\ metrics.playfulness_score > 0
    /\ metrics.playfulness_score < Pow(10, FlowDecimals)

\* The sentences of the text, the word tokens in them, the hedges and the
\* passive cues.
SentenceCount == Len(FlowSentences)

SentenceWordSum ==
    SumOver(LAMBDA i : Len(tokenize_alpha(FlowSentences[i])), 1, SentenceCount)

SentencesOrOne == IF SentenceCount = 0 THEN 1 ELSE SentenceCount

HedgeCount == Cardinality(WholeWordPlaces(Hedges))

PassiveCount == passive_cues(lower(text))

\* The three terms of clarity over PerSentence = 4400 for each sentence:
\* 0.6 clamp(1 - max(0, avg - 18) / 22), 0.25 clamp(1 - hedges / 4) and
\* 0.15 clamp(1 - passive cues / 3), avg = SentenceWordSum / SentenceCount.
PerSentence == 4400 * SentencesOrOne

LengthPart ==
    IF SentenceWordSum <= 18 * SentencesOrOne THEN 2640 * SentencesOrOne
    ELSE IF SentenceWordSum >= 40 * SentencesOrOne THEN 0
    ELSE 120 * (40 * SentencesOrOne - SentenceWordSum)

HedgePart == 275 * SentencesOrOne * (IF HedgeCount >= 4 THEN 0 ELSE 4 - HedgeCount)

PassivePart == 220 * SentencesOrOne * (IF PassiveCount >= 3 THEN 0 ELSE 3 - PassiveCount)

\* Other average sentence lengths, hedge counts and passive-cue counts.
OtherAverages == {0, 18, 19, 29, 39, 40, MaxSentenceWords + 9}

OtherCounts == 0..6

FlowAverage == Rat(SentenceWordSum, SentencesOrOne)

\* C22: clarity_score is clamp(0.6 clamp(1 - max(0, avg - 18) / 22)
\* + 0.25 clamp(1 - hedges / 4) + 0.15 clamp(1 - passive cues / 3)) to four
\* decimals: the length term is 0.6 up to 18 words a sentence, falls linearly
\* beyond 18 and is 0 from 40 on, and the score does not increase when the
\* average sentence length, the hedge count or the passive-cue count grows.
C22_ClarityFormula ==
    metrics.called =>
        /\ ~metrics.raised
        /\ IsNearest(metrics.clarity_score, LengthPart + HedgePart + PassivePart,
                     PerSentence, FlowDecimals)
        /\ (HedgeCount = 0 /\ PassiveCount = 0) =>
               /\ SentenceWordSum <= 18 * SentencesOrOne =>
                      metrics.clarity_score = Pow(10, FlowDecimals)
               /\ SentenceWordSum >= 40 * SentencesOrOne =>
                      metrics.clarity_score = 4000
               /\ ( /\ SentenceWordSum > 18 * SentencesOrOne
                    /\ SentenceWordSum < 40 * SentencesOrOne ) =>
                      /\ metrics.clarity_score < Pow(10, FlowDecimals)
                      /\ metrics.clarity_score > 4000
        /\ \A avg \in {FlowAverage}, hedges \in {HedgeCount}, passive \in {PassiveCount} :
             \A here \in {clarity_expression(avg, hedges, passive)} :
               \A a \in OtherAverages, h \in OtherCounts, p \in OtherCounts :
                 ( /\ RatLe(avg, <<a, 1>>)
                   /\ h >= hedges
                   /\ p >= passive
                   /\ clarity_expression(<<a, 1>>, h, p) # here ) =>
                     \A v \in round_outcomes(clarity_expression(<<a, 1>>, h, p), FlowDecimals) :
                         v <= metrics.clarity_score

\* A burst of one sentence of between 18 and 40 words: the length term is
\* strictly between its ends, and a longer sentence, one more hedge or one
\* more passive cue each lower the score.
C22_Witness ==
    /\ FlowReturned
    /\ SentenceCount = 1
    /\ SentenceWordSum > 18
    /\ SentenceWordSum < 40
    /\ metrics.clarity_score > 4000
    /\ metrics.clarity_score < Pow(10, FlowDecimals)
    /\ \A v \in round_outcomes(clarity_expression(<<39, 1>>, HedgeCount, PassiveCount),
                                FlowDecimals) :
           v < metrics.clarity_score
    /\ \A v \in round_outcomes(clarity_expression(FlowAverage, HedgeCount + 1, PassiveCount),
                                FlowDecimals) :
           v < metrics.clarity_score
    /\ \A v \in round_outcomes(clarity_expression(FlowAverage, HedgeCount, PassiveCount + 1),
                                FlowDecimals) :
           v < metrics.clarity_score

\* The tokens of the text that are longer than six characters and, in lower
\* case, no stopword.
RareCount ==
    Cardinality({i \in DOMAIN FlowTokens :
                    Len(FlowTokens[i]) > 6 /\ lower(FlowTokens[i]) \notin _BASIC_STOPWORDS})

\* 0.7 clamp(rare_word_rate / 0.15) over 3 PerWord, rare_word_rate = RareCount /
\* word_count (0 without words).
RarePart ==
    IF metrics.word_count = 0 THEN 0
    ELSE IF 100 * RareCount >= 15 * metrics.word_count THEN 210 * metrics.word_count
    ELSE 1400 * RareCount

\* C23: creativity_score is clamp(0.7 clamp(rare_word_rate / 0.15)
\* + 0.3 clamp(ttr / 0.6)) to four decimals, a rare word being a token longer
\* than 6 characters whose lowercase form is no stopword and rare_word_rate the
\* rare words per word (0 without words); it is 1.0 whenever rare_word_rate is
\* at least 0.15 and ttr at least 0.6.
C23_CreativityFormula ==
    metrics.called =>
        /\ ~metrics.raised
        /\ \A rare \in {RareCount}, sum \in {RarePart + 3 * TtrPart(30)} :
             /\ IsNearest(metrics.creativity_score,
                          IF sum > 3 * PerWord THEN 3 * PerWord ELSE sum,
                          3 * PerWord, FlowDecimals)
             /\ ( /\ metrics.word_count > 0
                  /\ 100 * rare >= 15 * metrics.word_count
                  /\ 10 * metrics.vocab_type_count >= 6 * metrics.word_count ) =>
                    metrics.creativity_score = Pow(10, FlowDecimals)
             /\ (metrics.word_count = 0 \/ rare = 0) =>
                    metrics.creativity_score <= 3000

\* A burst with one long word in seven: the rare-word rate is below 0.15 and
\* ttr below 0.6, so both terms show unclamped in the score.
C23_Witness ==
    /\ FlowReturned
    /\ RareCount = 1
    /\ metrics.word_count = 7
    /\ metrics.vocab_type_count = 2
    /\ metrics.creativity_score = 8095

\* Other values a record can hold for vocab_ttr and repetition_rate, those
\* outside [0, 1] included, and the record without any field.
OtherRates == {0 - 5000, 7500, 10000, 25000}

EmptyRecord == [called |-> TRUE, raised |-> FALSE]

InRange(results) ==
    \A r \in results : ~r.raised /\ 9000 <= r.value /\ r.value <= 15000

\* C24: whatever the metrics record, the elapsed time and the goal list,
\* compute_flow_composite returns a value from 90 to 150: 100, plus at most
\* 10 + 20 + 20 from the clamped rewards, minus at most 10 from the clamped
\* penalty.
C24_CompositeRange ==
    composite.called =>
        /\ InRange({composite})
        /\ InRange(compute_flow_composite(elapsed_seconds, EmptyRecord, goal_focus))
        /\ \A t \in OtherRates, r \in OtherRates :
               InRange(compute_flow_composite(
                           elapsed_seconds,
                           [metrics EXCEPT !.vocab_ttr = t, !.repetition_rate = r,
                                           !.playfulness_score = t],
                           goal_focus))

\* The least composite: no words, no variety, no goal, repetition of one half
\* or more.
C24_Witness ==
    /\ CompositeReturned
    /\ composite.value = 9000
    /\ metrics.repetition_rate = 5000
    /\ \E t \in OtherRates, r \in OtherRates :
           \E c \in compute_flow_composite(
                        MaxElapsed,
                        [metrics EXCEPT !.word_count = MaxWordCount, !.vocab_ttr = t,
                                        !.repetition_rate = r, !.clarity_score = 10000],
                        PyList(<<"clarity">>)) :
               c.value = 15000

\* The goal list of the call with a name added that no score field matches.
UnknownGoal == "tempo"

WithUnknownGoal == PyList(Append(SpecGoals, UnknownGoal))

\* The score before rounding, with the goal list as given and with the
\* unknown name added.
ScoreAsGiven == ExactScore(elapsed_seconds, metrics, goal_focus)

ScoreWithUnknown == ExactScore(elapsed_seconds, metrics, WithUnknownGoal)

\* What the unknown name takes off the score before rounding.
UnknownGoalDrop == RatSub(ScoreAsGiven, ScoreWithUnknown)

\* C30 as stated: an unknown goal name counts as a score of 0.0 in the goal
\* average, so adding one to the goal list never increases the composite and
\* lowers it whenever the average of the recognized goals is positive.
C30_UnknownGoalLowers ==
    composite.called =>
        /\ ~composite.raised
        /\ \A c \in compute_flow_composite(elapsed_seconds, metrics, WithUnknownGoal) :
             /\ ~c.raised
             /\ ScoreAsGiven # ScoreWithUnknown => c.value <= composite.value
             /\ SpecGoalSum > 0 => c.value < composite.value

\* C30 amended: an unknown goal name counts as a score of 0.0 in the goal
\* average, so adding one to the goal list never increases the composite; it
\* lowers the score before rounding whenever the average of the recognized
\* goals is positive, and the composite returned whenever that score drops by
\* more than 0.01.
C30_UnknownGoalNeverRaises ==
    composite.called =>
        /\ ~composite.raised
        /\ goal_avg(goal_scores(metrics, WithUnknownGoal))
             = Ok(Rat(SpecGoalSum, (Len(SpecGoals) + 1) * Pow(10, FlowDecimals)))
        /\ UnknownGoalDrop[1] >= 0
        /\ SpecGoalSum > 0 => UnknownGoalDrop[1] > 0
        /\ \A c \in compute_flow_composite(elapsed_seconds, metrics, WithUnknownGoal) :
             /\ ~c.raised
             /\ ScoreAsGiven # ScoreWithUnknown => c.value <= composite.value
             /\ ~RatLe(UnknownGoalDrop, <<1, 100>>) =>
                    c.value < composite.value

\* One goal with a score of 0.0001: the unknown name halves the average, which
\* the two decimals of the composite do not show; the same call with the
\* clarity goal returns less with the unknown name.
C30_Witness ==
    /\ CompositeReturned
    /\ goal_focus = PyList(<<"creativity">>)
    /\ metrics.creativity_score = 1
    /\ ScoreWithUnknown # ScoreAsGiven
    /\ compute_flow_composite(elapsed_seconds, metrics, WithUnknownGoal) = {composite}
    /\ \A a \in compute_flow_composite(elapsed_seconds, metrics, PyList(<<"clarity">>)),
          b \in compute_flow_composite(elapsed_seconds, metrics,
                                       PyList(<<"clarity", UnknownGoal>>)) :
           b.value < a.value

-----------------------------------------------------------------------------
(* C25: when the LLM call raises an exception, get_ai_feedback and         *)
(* get_flow_feedback return a non-empty fallback text, grade_with_rubric   *)
(* returns overall None, an empty per_criterion and confidence "low", and  *)
(* none of them raises to its caller.                                      *)

LlmCallRaised == assistant.called /\ assistant.llm.kind = "raises"

IsFeedbackCall == assistant.fn \in {"get_ai_feedback", "get_flow_feedback"}

FallbackText ==
    IF assistant.fn = "get_ai_feedback" THEN companion_fallback(assistant.llm.msg)
    ELSE flow_fallback

C25_LlmFailureFallsBack ==
    LlmCallRaised =>
        /\ ~assistant.result.raised
        /\ IsFeedbackCall =>
               /\ Len(assistant.result.value) > 0
               /\ assistant.result.value = FallbackText
        /\ assistant.fn = "grade_with_rubric" =>
               /\ assistant.result.value.overall = PyNone
               /\ assistant.result.value.per_criterion = PyDict(<<>>)
               /\ assistant.result.value.confidence = PyStr(<<"l","o","w">>)

\* The grader has built its payload and the call has failed with a quota
\* error.
C25_Witness ==
    /\ LlmCallRaised
    /\ assistant.llm.exc = "RateLimitError"
    /\ assistant.fn = "grade_with_rubric"
    /\ assistant.leniency = PyNum(5)
    /\ assistant.anchors = PyNone
    /\ assistant.rubric_schema = PyDict([criteria |-> <<[name |-> "Thesis"]>>])
    /\ assistant.result.value.rationales._note = GradingFailed \o assistant.llm.msg

-----------------------------------------------------------------------------
(* C26: upsert_flow_goal updates the active row of (user_id, focus) in     *)
(* place if there is one and inserts a row otherwise, so that after any    *)
(* sequence of calls at most one row per (user_id, focus) is active.       *)

ActiveRows(user_id, focus) == matching_active_goals(flow_goals, user_id, focus)

\* The call completed by the last step has changed the row its select
\* returned and nothing else.
UpdatedInPlace ==
    /\ Len(flow_goals) = Len(goal_call.before)
    /\ \A i \in DOMAIN flow_goals :
           IF i = goal_call.goal_id
           THEN flow_goals[i] = [goal_call.before[i] EXCEPT
                                    !.target = goal_call.target,
                                    !.window_days = goal_call.window_days,
                                    !.active = goal_call.active]
           ELSE flow_goals[i] = goal_call.before[i]

\* The call completed by the last step has added one row, with its
\* arguments.
InsertedRow ==
    /\ Len(flow_goals) = Len(goal_call.before) + 1
    /\ SubSeq(flow_goals, 1, Len(goal_call.before)) = goal_call.before
    /\ \A row \in {flow_goals[Len(flow_goals)]} :
           /\ row.user_id = goal_call.user_id
           /\ row.focus = goal_call.focus
           /\ row.target = goal_call.target
           /\ row.active = goal_call.active

C26_OneActiveGoalPerFocus ==
    /\ \A user_id \in GoalUsers, focus \in GoalFocuses :
           Cardinality(ActiveRows(user_id, focus)) <= 1
    /\ \A user_id \in GoalUsers :
           \A i, j \in DOMAIN active_flow_goals(flow_goals, user_id) :
               i # j => active_flow_goals(flow_goals, user_id)[i].focus
                            # active_flow_goals(flow_goals, user_id)[j].focus
    /\ goal_call.called =>
           IF goal_call.goal_id # 0 THEN UpdatedInPlace ELSE InsertedRow

-----------------------------------------------------------------------------
(* C27: after n calls of update_profile from no stored profile, count is   *)
(* n, avg_sentence_length and vocab_richness are the arithmetic means of   *)
(* the n values submitted, and frequent_words has no duplicates.           *)

CallsMade == Len(submitted)

\* The floats submitted.
SubmittedLengths ==
    [i \in DOMAIN submitted |->
        binary64_of_ratio(submitted[i].sentence_length_avg, Pow(10, StyleDecimals))]

SubmittedRichness ==
    [i \in DOMAIN submitted |->
        binary64_of_ratio(submitted[i].vocab_richness, Pow(10, StyleDecimals))]

\* The exact sum of the first n values.
RECURSIVE SumOfSubmitted(_, _)
SumOfSubmitted(values, n) ==
    IF n = 0 THEN dyadic(<<>>, 0)
    ELSE dyadic_plus(SumOfSubmitted(values, n - 1), values[n])

\* The arithmetic mean of the values as a float: the binary64 nearest to
\* their exact sum divided by their number.
MeanOfSubmitted(values) ==
    binary64_over_int(SumOfSubmitted(values, Len(values)), Len(values))

NoDuplicates(q) == \A i, j \in DOMAIN q : i # j => q[i] # q[j]

CountAndWordsKept ==
    /\ profile_file.exists <=> CallsMade > 0
    /\ profile_file.exists =>
           /\ profile_file.profile.count = CallsMade
           /\ NoDuplicates(profile_file.profile.frequent_words)

\* C27 as claimed: after n calls count is n, the stored averages are the
\* arithmetic means of the submitted values and frequent_words has no
\* duplicates.
C27_ProfileIsRunningMean ==
    /\ CountAndWordsKept
    /\ profile_file.exists =>
           /\ profile_file.profile.avg_sentence_length = MeanOfSubmitted(SubmittedLengths)
           /\ profile_file.profile.vocab_richness = MeanOfSubmitted(SubmittedRichness)

\* |average - sum / n| <= (n - 1) * 2^-51 * sum / n, as
\* |n * average - sum| * 2^51 <= (n - 1) * sum.
MeanUpToRounding(average, sum, n) ==
    ~dyadic_less(dyadic_times(sum, n - 1),
                 dyadic_shifted(dyadic_distance(dyadic_times(average, n), sum), 51))

\* C27 amended: after n calls count is n, frequent_words has no duplicates,
\* and each stored average lies within (n - 1) * 2^-51 of the arithmetic
\* mean of the submitted values, relative to that mean: it is the mean
\* after the first call and the mean up to the rounding of the float
\* operations after the later ones.
C27_ProfileIsMeanUpToRounding ==
    /\ CountAndWordsKept
    /\ profile_file.exists =>
           /\ MeanUpToRounding(profile_file.profile.avg_sentence_length,
                               SumOfSubmitted(SubmittedLengths, CallsMade), CallsMade)
           /\ MeanUpToRounding(profile_file.profile.vocab_richness,
                               SumOfSubmitted(SubmittedRichness, CallsMade), CallsMade)
           /\ CallsMade = 1 =>
                  /\ profile_file.profile.avg_sentence_length = SubmittedLengths[1]
                  /\ profile_file.profile.vocab_richness = SubmittedRichness[1]

\* Three calls with three different sentence lengths, the last bringing
\* words the profile already had; the stored vocab_richness of 0.33, 1.0
\* and 1.0 is 0.7766666666666667, the float next above the one nearest to
\* their mean.
C27_Witness ==
    /\ CallsMade = 3
    /\ profile_file.profile.count = 3
    /\ [i \in 1..3 |-> submitted[i].sentence_length_avg] = <<1200, 0, 450>>
    /\ profile_file.profile.avg_sentence_length = binary64_of_ratio(11, 2)
    /\ [i \in 1..3 |-> submitted[i].vocab_richness] = <<33, 100, 100>>
    /\ profile_file.profile.vocab_richness # MeanOfSubmitted(SubmittedRichness)
    /\ submitted[1].frequent_words = <<"sea", "salt", "sea">>
    /\ submitted[2].frequent_words = <<>>
    /\ submitted[3].frequent_words = <<"sea", "salt", "sea">>
    /\ profile_file.profile.frequent_words = <<"salt", "sea">>

-----------------------------------------------------------------------------
(* C28: in every state reachable by interleavings of create_grader_version *)
(* and set_active_grader_version calls, at most one version per            *)
(* (teacher_id, rubric_id) is active, and when                             *)
(* set_active_grader_version(t, r, v) has completed, v is the only active  *)
(* version of (t, r).                                                      *)

ActiveVersions(teacher_id, rubric_id) ==
    active_versions(grader_versions, teacher_id, rubric_id)

C28_OneActiveVersion ==
    /\ \A teacher_id \in Teachers, rubric_id \in GraderRubrics :
           Cardinality(ActiveVersions(teacher_id, rubric_id)) <= 1
    /\ grader_done.called =>
           ActiveVersions(grader_done.teacher_id, grader_done.rubric_id)
               = {grader_done.version_id}

-----------------------------------------------------------------------------
(* C29: an attempt is submitted only when a session exists and             *)
(* fs_started_at is set; every submit and every "Start burst" resets       *)
(* fs_started_at to None and clears fs_response, so no two attempts are    *)
(* submitted without a "Begin writing" between them, and every stored      *)
(* attempt has end_time >= start_time.                                     *)

\* Every attempt stored belongs to a session and ends no earlier than it
\* started.
AttemptsWellFormed ==
    \A i \in DOMAIN flow_attempts :
        /\ flow_attempts[i].session_id \in 1..flow_sessions
        /\ flow_attempts[i].start_time <= flow_attempts[i].end_time

\* The last run was a submit or a "Start burst" that ran to its end.
HandlerCompleted ==
    ui_log.event \in {"submit", "start_burst"} /\ ui_log.completed

C29_SubmitNeedsBegin ==
    /\ AttemptsWellFormed
    /\ HandlerCompleted =>
           /\ session_state.fs_started_at = PyNone
           /\ session_state.fs_response = <<>>
    /\ ~ui_log.unbegun_attempt

=============================================================================
